---- MODULE Spec2Model ----
(***************************************************************************)
(* A model of the C-String-Format library (utils/format.h, format.cpp).    *)
(*                                                                         *)
(* A render call  Format(formatStr, args...)  is a state machine:          *)
(*   start   --ParseLeadingText-->  parsing | output | failed               *)
(*   parsing --ParseField-->        parsing | binding | output | failed    *)
(*   binding --BindArgument-->      binding | output | failed              *)
(*   output  --Output-->            done | failed                          *)
(* Text is a sequence of one-character strings; positions are 0-based as   *)
(* in the source, and NUL stands for the terminator of a C string.         *)
(***************************************************************************)
EXTENDS Integers, Sequences, FiniteSets, TLC

VARIABLES
    formatStr,           \* the template handed to Format
    args,                \* the positional arguments
    env,                 \* the process environment (name -> value)
    strict,              \* TRUE unless FORMAT_DISABLE_THROW_OUT_OF_RANGE is defined
    pc,                  \* position of the render call
    pos,                 \* ParseFormatStr: scan position
    nextParameterIndex,  \* ParseFormatStr: running auto-index
    fragments,           \* std::vector<FormatFragment>
    ostr,                \* the output stream of Format
    argIndex,            \* FormatParameters<ArgumentIndex>: next argument to bind
    error,               \* the exception that ended the call, if any
    platform,            \* what the build does where the language leaves it open
    suspended            \* the automatic variables of the other calls of the process

vars == <<formatStr, args, env, strict, pc, pos, nextParameterIndex, fragments,
          ostr, argIndex, error, platform, suspended>>

-----------------------------------------------------------------------------
(* Bounds of the model *)

MaxPieces == 3        \* template pieces (fields / literal runs) per template
MaxScanLen == 5       \* length of the brace/escape templates
MaxChain == 3         \* selectors per field in the selector templates
MaxArgs == 2          \* arguments per render call
DecDigits == 4        \* fractional decimal digits kept for a floating value

-----------------------------------------------------------------------------
(* Characters and program constants *)

NUL == ""
FORMAT_START == "{"
FORMAT_END == "}"
FORMAT_SPECIFIER == ":"
FORMAT_ENVIRONMENT == "$"
FORMAT_EXPLICIT_TYPE == "!"
FORMAT_SELECTOR_OBJ == "."
FORMAT_SELECTOR_ARRAY_BEGIN == "["
FORMAT_SELECTOR_ARRAY_END == "]"
FORMAT_TEXT_INDEX == -1
FORMAT_ENVIRONMENT_INDEX == -2
PRECISION_NOT_SET == -1
DOUBLE_MAX_DEFAULT_PRECISION == 16
DOUBLE_MIN_DEFAULT_PRECISION == 1

Digits == <<"0", "1", "2", "3", "4", "5", "6", "7", "8", "9">>
DigitChars == {Digits[i] : i \in 1..10}
LowerChars == {"a","b","c","d","e","f","g","h","i","j","k","l","m",
               "n","o","p","q","r","s","t","u","v","w","x","y","z"}
UpperChars == {"A","B","C","D","E","F","G","H","I","J","K","L","M",
               "N","O","P","Q","R","S","T","U","V","W","X","Y","Z"}

DigitValue(c) == (CHOOSE i \in 1..10 : Digits[i] = c) - 1

\* formatParameter[p]: the character at 0-based p, NUL at the terminator
CharAt(s, p) == IF p >= 0 /\ p < Len(s) THEN s[p + 1] ELSE NUL

\* F applied to v: names a value that is needed more than once
With(v, F(_)) == F(v)

RECURSIVE Concat(_)
Concat(ss) == IF ss = <<>> THEN <<>> ELSE Head(ss) \o Concat(Tail(ss))

\* exceptions
NoError == [kind |-> "none"]
ParseError(p, m) == [kind |-> "parse", pos |-> p, msg |-> m]
RangeError(i) == [kind |-> "range", index |-> i]

-----------------------------------------------------------------------------
(* Template Scanner *)

\* a scanner that recognises an escaped closing bracket and forgets to write it
RECURSIVE GetPlainTextLoopDropClose(_, _, _, _)
GetPlainTextLoopDropClose(fp, p, expect, out) ==
    LET c == CharAt(fp, p) IN
    IF c = NUL THEN [pos |-> p, out |-> out, err |-> NoError]
    ELSE IF expect # NUL /\ expect # c
    THEN [pos |-> p, out |-> out, err |-> ParseError(p, "expected")]
    ELSE IF c = FORMAT_START
    THEN IF CharAt(fp, p + 1) = FORMAT_START
         THEN GetPlainTextLoopDropClose(fp, p + 2, expect, Append(out, c))
         ELSE [pos |-> p, out |-> out, err |-> NoError]
    ELSE IF c = FORMAT_END
    THEN GetPlainTextLoopDropClose(fp, p + 1, IF expect = NUL THEN FORMAT_END ELSE NUL, out)
    ELSE GetPlainTextLoopDropClose(fp, p + 1, expect, Append(out, c))

RECURSIVE GetPlainTextLoop(_, _, _, _)
GetPlainTextLoop(fp, p, expect, out) ==
    LET c == CharAt(fp, p) IN
    IF c = NUL THEN [pos |-> p, out |-> out, err |-> NoError]
    ELSE IF expect # NUL /\ expect # c
    THEN [pos |-> p, out |-> out, err |-> ParseError(p, "expected")]
    ELSE IF c = FORMAT_START
    THEN IF CharAt(fp, p + 1) = FORMAT_START
         THEN GetPlainTextLoop(fp, p + 2, expect, Append(out, c))
         ELSE [pos |-> p, out |-> out, err |-> NoError]
    ELSE IF c = FORMAT_END
    THEN IF expect = FORMAT_END
         THEN GetPlainTextLoop(fp, p + 1, NUL, Append(out, c))
         ELSE IF expect = NUL
         THEN GetPlainTextLoop(fp, p + 1, FORMAT_END, out)
         ELSE GetPlainTextLoop(fp, p + 1, expect, out)
    ELSE GetPlainTextLoop(fp, p + 1, expect, Append(out, c))

GetPlainTextFragment(fp, p) == GetPlainTextLoop(fp, p, NUL, <<>>)

RECURSIVE SkipWhitespace(_, _)
SkipWhitespace(fp, p) ==
    IF CharAt(fp, p) \in {" ", "\t", "\n", "\r"}
    THEN SkipWhitespace(fp, p + 1)
    ELSE p

-----------------------------------------------------------------------------
(* Integer literals: int is 32 bits wide.  The accumulator is kept as two  *)
(* 16-bit halves so that parsedInteger * 10 + digit wraps modulo 2^32.     *)

Half == 65536

MulAddWrap(acc, d) ==
    LET lo == (acc % Half) * 10 + d
        hi == ((acc \div Half) * 10 + (lo \div Half)) % Half
    IN  [neg |-> hi >= Half \div 2, val |-> (hi % (Half \div 2)) * Half + (lo % Half)]

RECURSIVE ParseIntegerLoop(_, _, _, _, _, _, _)
ParseIntegerLoop(fp, p, allowNegative, acc, sign, firstChar, foundAny) ==
    LET c == CharAt(fp, p) IN
    IF c = "-"
    THEN IF allowNegative /\ firstChar
         THEN ParseIntegerLoop(fp, p + 1, allowNegative, acc, -1, FALSE, TRUE)
         ELSE [pos |-> p, val |-> 0, found |-> TRUE, sign |-> sign,
               err |-> ParseError(p, "sign")]
    ELSE IF c \in DigitChars
    THEN With(MulAddWrap(acc, DigitValue(c)), LAMBDA r :
             IF r.neg
             THEN [pos |-> p, val |-> 0, found |-> TRUE, sign |-> sign,
                   err |-> ParseError(p, "overflow")]
             ELSE ParseIntegerLoop(fp, p + 1, allowNegative, r.val, sign, FALSE, TRUE))
    ELSE [pos |-> p, val |-> acc, found |-> foundAny, sign |-> sign, err |-> NoError]

ParseIntegerNumber(fp, p, allowNegative, defaultValue) ==
    With(ParseIntegerLoop(fp, p, allowNegative, 0, 1, TRUE, FALSE), LAMBDA r :
        LET parsedInteger == IF r.found THEN r.val ELSE defaultValue
        IN  IF r.err.kind # "none" THEN [pos |-> r.pos, val |-> 0, err |-> r.err]
            ELSE IF parsedInteger = 0 /\ r.sign < 0
            THEN [pos |-> r.pos, val |-> 0, err |-> ParseError(r.pos, "minus zero")]
            ELSE [pos |-> r.pos, val |-> parsedInteger * r.sign, err |-> NoError])

-----------------------------------------------------------------------------
(* Field Descriptor Parser: scanning helpers *)

IsIdentifierChar(c) == c \in LowerChars \cup UpperChars \cup DigitChars \cup {"_"}

RECURSIVE ReadIdentifier(_, _, _)
ReadIdentifier(fp, p, out) ==
    IF IsIdentifierChar(CharAt(fp, p))
    THEN ReadIdentifier(fp, p + 1, Append(out, CharAt(fp, p)))
    ELSE [pos |-> p, out |-> out]

\* formatParameter[p] is FORMAT_ENVIRONMENT
ReadEnvironmentVariableName(fp, p) == ReadIdentifier(fp, p + 1, <<>>)

RECURSIVE ReadFormatSpecifier(_, _, _)
ReadFormatSpecifier(fp, p, out) ==
    LET c == CharAt(fp, p) IN
    IF c = NUL THEN [pos |-> p, out |-> out, err |-> NoError]
    ELSE IF c = FORMAT_END
    THEN IF CharAt(fp, p + 1) = FORMAT_END
         THEN ReadFormatSpecifier(fp, p + 2, Append(out, c))
         ELSE [pos |-> p, out |-> out, err |-> NoError]
    ELSE IF c = FORMAT_START
    THEN IF CharAt(fp, p + 1) = FORMAT_START
         THEN ReadFormatSpecifier(fp, p + 2, Append(out, c))
         ELSE [pos |-> p, out |-> out, err |-> ParseError(p, "expected")]
    ELSE ReadFormatSpecifier(fp, p + 1, Append(out, c))

\* strchr("srid", type) also finds the terminator of "srid"
ReadExplicitTypeConversion(fp, p) ==
    IF CharAt(fp, p) = FORMAT_EXPLICIT_TYPE
    THEN LET type == CharAt(fp, p + 1) IN
         IF type \notin {"s", "r", "i", "d", NUL}
         THEN [pos |-> p + 1, conv |-> NUL, err |-> ParseError(p + 1, "conversion")]
         ELSE [pos |-> p + 2, conv |-> type, err |-> NoError]
    ELSE [pos |-> p, conv |-> NUL, err |-> NoError]

IsSelectorStart(c) == c = FORMAT_SELECTOR_OBJ \/ c = FORMAT_SELECTOR_ARRAY_BEGIN

ReadSelector(fp, p, selectors) ==
    LET selectorType == CharAt(fp, p) IN
    IF IsSelectorStart(selectorType)
    THEN With(ReadIdentifier(fp, p + 1, <<>>), LAMBDA id :
             LET endSelector == CharAt(fp, id.pos)
             IN  IF selectorType = FORMAT_SELECTOR_ARRAY_BEGIN
                    /\ endSelector # FORMAT_SELECTOR_ARRAY_END
                 THEN [pos |-> id.pos, selectors |-> selectors,
                       err |-> ParseError(id.pos, "selector")]
                 ELSE [pos |-> IF endSelector = FORMAT_SELECTOR_ARRAY_END
                               THEN id.pos + 1 ELSE id.pos,
                       selectors |-> Append(selectors, id.out),
                       err |-> NoError])
    ELSE [pos |-> p, selectors |-> selectors, err |-> NoError]

RECURSIVE ReadSelectors(_, _, _)
ReadSelectors(fp, p, selectors) ==
    IF IsSelectorStart(CharAt(fp, p))
    THEN With(ReadSelector(fp, p, selectors), LAMBDA r :
             IF r.err.kind # "none" THEN r
             ELSE ReadSelectors(fp, r.pos, r.selectors))
    ELSE [pos |-> p, selectors |-> selectors, err |-> NoError]

\* a specifier that ends at the first closing bracket, doubled or not
ParseFormatSpecifierToFirstClose(fp, p) ==
    IF CharAt(fp, p) = FORMAT_SPECIFIER
    THEN LET stop == CHOOSE q \in (p + 1)..Len(fp) :
                         /\ CharAt(fp, q) \in {FORMAT_END, NUL}
                         /\ \A k \in (p + 1)..(q - 1) : CharAt(fp, k) \notin {FORMAT_END, NUL}
         IN  [pos |-> stop, out |-> [k \in 1..(stop - p - 1) |-> CharAt(fp, p + k)],
              err |-> NoError]
    ELSE [pos |-> p, out |-> <<>>, err |-> NoError]

ParseFormatSpecifier(fp, p) ==
    IF CharAt(fp, p) = FORMAT_SPECIFIER
    THEN ReadFormatSpecifier(fp, p + 1, <<>>)
    ELSE [pos |-> p, out |-> <<>>, err |-> NoError]

\* every fragment starts out handled, as text and environment fragments do
InitializeFormatFragmentHandled(index) ==
    [text |-> <<>>, formatSpecifier |-> <<>>, selectors |-> <<>>,
     index |-> index, explicitConversion |-> NUL, handled |-> TRUE]

\* a default-constructed FormatFragment after InitializeFormatFragment
InitializeFormatFragment(index) ==
    [text |-> <<>>, formatSpecifier |-> <<>>, selectors |-> <<>>,
     index |-> index, explicitConversion |-> NUL, handled |-> index < 0]

-----------------------------------------------------------------------------
(* Specifier Resolver *)

FORMAT_ALIGN_LEFT == "<"
FORMAT_ALIGN_RIGHT == ">"
FORMAT_ALIGN_CENTER == "^"
FORMAT_ALIGN_INTERNAL == "="
FORMAT_ALTERNATE_TOGGLE == "#"
FORMAT_SIGNAWARE_ZERO_TOGGLE == "0"
FORMAT_THOUSANDS_TOGGLE == ","
FORMAT_PRECISION_TOGGLE == "."
FORMAT_SIGN_NEGATIVES_TOGGLE == "-"
FORMAT_SIGN_ALWAYS_TOGGLE == "+"
FORMAT_SIGN_POSITIVE_SPACE_TOGGLE == " "

AlignChars == {FORMAT_ALIGN_LEFT, FORMAT_ALIGN_RIGHT, FORMAT_ALIGN_INTERNAL,
               FORMAT_ALIGN_CENTER}
TypeChars == {"b", "c", "d", "e", "E", "f", "F", "g", "G", "n", "o", "x", "X", "%"}

InitializeFormatSpecifier ==
    [precision |-> PRECISION_NOT_SET, width |-> 0, align |-> NUL, fill |-> NUL,
     sign |-> FORMAT_SIGN_NEGATIVES_TOGGLE, type |-> NUL,
     alternateForm |-> FALSE, thousandSeparator |-> FALSE,
     pos |-> 0, err |-> NoError]

ReadAlignSpecifier(fp, sp) ==
    LET fill == CharAt(fp, sp.pos)
        align == CharAt(fp, sp.pos + 1)
    IN  IF fill # NUL /\ align # NUL
        THEN IF align \in AlignChars
             THEN [sp EXCEPT !.align = align, !.fill = fill, !.pos = sp.pos + 2]
             ELSE IF fill \in AlignChars
             THEN [sp EXCEPT !.align = fill, !.fill = NUL, !.pos = sp.pos + 1]
             ELSE sp
        ELSE sp

ReadSignSpecifier(fp, sp) ==
    LET sign == CharAt(fp, sp.pos) IN
    IF sign \in {FORMAT_SIGN_ALWAYS_TOGGLE, FORMAT_SIGN_NEGATIVES_TOGGLE,
                 FORMAT_SIGN_POSITIVE_SPACE_TOGGLE}
    THEN [sp EXCEPT !.sign = sign, !.pos = sp.pos + 1]
    ELSE sp

ReadAlternateSpecifier(fp, sp) ==
    IF CharAt(fp, sp.pos) = FORMAT_ALTERNATE_TOGGLE
    THEN [sp EXCEPT !.alternateForm = TRUE, !.pos = sp.pos + 1]
    ELSE sp

ReadSignAwareZeroSpecifier(fp, sp) ==
    IF CharAt(fp, sp.pos) = FORMAT_SIGNAWARE_ZERO_TOGGLE
    THEN [sp EXCEPT !.fill = "0",
                    !.align = IF sp.align = NUL THEN FORMAT_ALIGN_INTERNAL ELSE sp.align,
                    !.pos = sp.pos + 1]
    ELSE sp

ReadWidthSpecifier(fp, sp) ==
    With(ParseIntegerNumber(fp, sp.pos, FALSE, 0), LAMBDA r :
        [sp EXCEPT !.width = r.val, !.pos = r.pos, !.err = r.err])

ReadThousandSepSpecifier(fp, sp) ==
    IF CharAt(fp, sp.pos) = FORMAT_THOUSANDS_TOGGLE
    THEN [sp EXCEPT !.thousandSeparator = TRUE, !.pos = sp.pos + 1]
    ELSE sp

ReadPrecisionSpecifier(fp, sp) ==
    IF CharAt(fp, sp.pos) = FORMAT_PRECISION_TOGGLE
    THEN With(ParseIntegerNumber(fp, sp.pos + 1, FALSE, -1), LAMBDA r :
             [sp EXCEPT !.precision = r.val, !.pos = r.pos, !.err = r.err])
    ELSE sp

ReadTypeSpecifier(fp, sp) ==
    IF CharAt(fp, sp.pos) \in TypeChars
    THEN [sp EXCEPT !.type = CharAt(fp, sp.pos), !.pos = sp.pos + 1]
    ELSE sp

\* the eight stages in their fixed order; an exception of the width or
\* precision literal ends the call
ConvertToBasicFormatSpecifiers(fp) ==
    IF CharAt(fp, 0) = NUL THEN InitializeFormatSpecifier
    ELSE With(ReadWidthSpecifier(fp,
                  ReadSignAwareZeroSpecifier(fp,
                  ReadAlternateSpecifier(fp,
                  ReadSignSpecifier(fp,
                  ReadAlignSpecifier(fp, InitializeFormatSpecifier))))), LAMBDA s5 :
             IF s5.err.kind # "none" THEN s5
             ELSE With(ReadPrecisionSpecifier(fp, ReadThousandSepSpecifier(fp, s5)), LAMBDA s7 :
                      IF s7.err.kind # "none" THEN s7
                      ELSE ReadTypeSpecifier(fp, s7)))

-----------------------------------------------------------------------------
(* Output stream primitives (std::ostream with width, fill, adjustfield,   *)
(* basefield, showpos, uppercase and a grouping numpunct facet)            *)

Repeat(c, n) == [i \in 1..(IF n > 0 THEN n ELSE 0) |-> c]

Take(s, n) == SubSeq(s, 1, IF n < Len(s) THEN n ELSE Len(s))
Drop(s, n) == SubSeq(s, n + 1, Len(s))

HexDigits == <<"0", "1", "2", "3", "4", "5", "6", "7", "8", "9",
               "a", "b", "c", "d", "e", "f">>
HexDigitsUpper == <<"0", "1", "2", "3", "4", "5", "6", "7", "8", "9",
                    "A", "B", "C", "D", "E", "F">>

\* the digits of n >= 0 in the given base, most significant first
RECURSIVE NatToDigits(_, _)
NatToDigits(n, base) ==
    IF n < base THEN <<n>> ELSE Append(NatToDigits(n \div base, base), n % base)

NatToText(n) == [i \in 1..Len(NatToDigits(n, 10)) |-> Digits[NatToDigits(n, 10)[i] + 1]]

\* the 64 bits of static_cast<unsigned long long>(v), most significant first
Bits64(v) ==
    LET m == IF v >= 0 THEN v ELSE (-v) - 1
        b == NatToDigits(m, 2)
        padded == Repeat(0, 64 - Len(b)) \o b
    IN  IF v >= 0 THEN padded ELSE [i \in 1..64 |-> 1 - padded[i]]

RECURSIVE StripLeadingZeros(_)
StripLeadingZeros(ds) ==
    IF Len(ds) > 1 /\ Head(ds) = 0 THEN StripLeadingZeros(Tail(ds)) ELSE ds

RECURSIVE BitsValue(_)
BitsValue(bs) ==
    IF bs = <<>> THEN 0 ELSE 2 * BitsValue(SubSeq(bs, 1, Len(bs) - 1)) + bs[Len(bs)]

\* regroup bits into digits of 2^k, least significant group last
RECURSIVE GroupBits(_, _)
GroupBits(bits, k) ==
    IF Len(bits) = 0 THEN <<>>
    ELSE LET n == IF Len(bits) % k = 0 THEN k ELSE Len(bits) % k
         IN  <<BitsValue(Take(bits, n))>> \o GroupBits(Drop(bits, n), k)

\* do_grouping() = "\3", do_thousands_sep() = ','
RECURSIVE GroupThousands(_)
GroupThousands(ds) ==
    IF Len(ds) <= 3 THEN ds
    ELSE GroupThousands(SubSeq(ds, 1, Len(ds) - 3)) \o <<",">>
         \o SubSeq(ds, Len(ds) - 2, Len(ds))

\* a stream that treats std::internal as std::right
PadFieldInternalAsRight(sign, body, fl) ==
    LET pad == Repeat(fl.fill, fl.width - (Len(sign) + Len(body)))
    IN  IF fl.adjust = "left" THEN sign \o body \o pad
        ELSE pad \o sign \o body

\* pad sign + body to the stream width
PadField(sign, body, fl) ==
    LET gap == fl.width - (Len(sign) + Len(body))
        pad == Repeat(fl.fill, gap)
    IN  IF fl.adjust = "left" THEN sign \o body \o pad
        ELSE IF fl.adjust = "internal" THEN sign \o pad \o body
        ELSE pad \o sign \o body

\* an int64_t: v is its value; min = TRUE stands for INT64_MIN, the one
\* value met here that lies outside the range of the model's integers
IntValue(n) == [kind |-> "int", v |-> n, min |-> FALSE]
Int64Min == [kind |-> "int", v |-> 0, min |-> TRUE]
IntIsNegative(x) == x.min \/ x.v < 0
Int64MinDigits == <<"9","2","2","3","3","7","2","0","3","6","8","5","4","7","7","5","8","0","8">>
IntBits(x) == IF x.min THEN <<1>> \o Repeat(0, 63) ELSE Bits64(x.v)

\* ostr << value  for a 64-bit signed integer
PutInteger(x, fl) ==
    LET digits ==
            IF fl.base = 10
            THEN IF x.min THEN Int64MinDigits
                 ELSE NatToText(IF x.v < 0 THEN -x.v ELSE x.v)
            ELSE With(StripLeadingZeros(GroupBits(IntBits(x), IF fl.base = 8 THEN 3 ELSE 4)),
                      LAMBDA ds :
                          [i \in 1..Len(ds) |->
                              IF fl.uppercase THEN HexDigitsUpper[ds[i] + 1]
                              ELSE HexDigits[ds[i] + 1]])
        sign == IF fl.base # 10 THEN <<>>
                ELSE IF IntIsNegative(x) THEN <<"-">>
                ELSE IF fl.showpos THEN <<"+">>
                ELSE <<>>
        body == IF fl.grouping THEN GroupThousands(digits) ELSE digits
    IN  PadField(sign, body, fl)

\* ostr << text  for a character string: internal counts as right
PutString(text, fl) ==
    PadField(<<>>, text, [fl EXCEPT !.adjust = IF fl.adjust = "left" THEN "left" ELSE "right"])

\* buffer << value  for a number pads it in a buffer of width characters that
\* std::num_put takes from the stack of the calling thread (8 MiB by default);
\* a width that does not fit ends the process with a segmentation fault
StackBytes == 8 * 1024 * 1024
StackOverflow == [kind |-> "crash"]

\* the flags of a fresh stringstream
DefaultFlags ==
    [width |-> 0, fill |-> " ", adjust |-> "right", showpos |-> FALSE, base |-> 10,
     uppercase |-> FALSE, grouping |-> FALSE, precision |-> 6, floatfield |-> "general"]

-----------------------------------------------------------------------------
(* Floating-point values.  A long double is modelled as a sign, an integer *)
(* part and DecDigits fractional decimal digits; exact = FALSE says that   *)
(* further non-zero digits follow (an irrational square root); where such  *)
(* a value is written with more than DecDigits digits, the digits that are *)
(* not kept appear as zeros.                                               *)

Dec(neg, ip, frac, exact) ==
    [kind |-> "dec", nan |-> FALSE, neg |-> neg, ip |-> ip, frac |-> frac, exact |-> exact]
NaN == [kind |-> "dec", nan |-> TRUE, neg |-> FALSE, ip |-> 0,
        frac |-> Repeat(0, DecDigits), exact |-> TRUE]

ZeroFrac == Repeat(0, DecDigits)

\* static_cast<long double>(v) of an integer
DecOfInt(v) == Dec(v < 0, IF v < 0 THEN -v ELSE v, ZeroFrac, TRUE)

DecIsZero(d) == d.ip = 0 /\ \A i \in 1..Len(d.frac) : d.frac[i] = 0
DecIsNegative(d) == d.neg /\ ~DecIsZero(d)

\* the largest r with r * r <= n
RECURSIVE IntSqrt(_, _)
IntSqrt(n, r) == IF (r + 1) * (r + 1) <= n THEN IntSqrt(n, r + 1) ELSE r

\* the digits of sqrt(v) after the point, one at a time: rem = v - root^2 is
\* kept exactly, the next digit d is the largest with (20*root + d)*d <= 100*rem
RECURSIVE SqrtDigits(_, _, _)
SqrtDigits(root, rem, k) ==
    IF k = 0 THEN [digits |-> <<>>, rem |-> rem]
    ELSE With(CHOOSE x \in 0..9 :
                  /\ (20 * root + x) * x <= 100 * rem
                  /\ (x = 9 \/ (20 * root + x + 1) * (x + 1) > 100 * rem), LAMBDA d :
             With(SqrtDigits(10 * root + d, 100 * rem - (20 * root + d) * d, k - 1), LAMBDA r :
                 [digits |-> <<d>> \o r.digits, rem |-> r.rem]))

\* std::sqrt(value) of an integer, as a double
SqrtOfInt(v) ==
    IF v < 0 THEN NaN
    ELSE With(IntSqrt(v, 0), LAMBDA ip :
             With(SqrtDigits(ip, v - ip * ip, DecDigits), LAMBDA r :
                 Dec(FALSE, ip, r.digits, r.rem = 0)))

\* add one to a digit sequence; a carry out of the front lengthens it
RECURSIVE IncDigits(_)
IncDigits(ds) ==
    IF ds = <<>> THEN <<1>>
    ELSE IF ds[Len(ds)] < 9 THEN [ds EXCEPT ![Len(ds)] = ds[Len(ds)] + 1]
    ELSE Append(IncDigits(SubSeq(ds, 1, Len(ds) - 1)), 0)

\* round digit sequence ds to its first keep digits, to nearest, ties to even
RoundDigits(ds, keep, exact) ==
    IF keep >= Len(ds) THEN ds \o Repeat(0, keep - Len(ds))
    ELSE LET kept == Take(ds, keep)
             first == ds[keep + 1]
             restNonZero == ~exact \/ \E i \in (keep + 2)..Len(ds) : ds[i] # 0
             odd == keep > 0 /\ ds[keep] % 2 = 1
             up == first > 5 \/ (first = 5 /\ (restNonZero \/ odd))
         IN  IF ~up THEN kept
             ELSE IF keep = 0 THEN <<1>>
             ELSE IncDigits(kept)

DigitText(ds) == [i \in 1..Len(ds) |-> Digits[ds[i] + 1]]

\* std::fixed with precision p: [integer digits, fraction digits]
FixedDigits(d, p) ==
    LET ipd == NatToDigits(d.ip, 10) IN
    With(RoundDigits(ipd \o d.frac, Len(ipd) + p, d.exact), LAMBDA r :
        [int |-> SubSeq(r, 1, Len(r) - p), frac |-> SubSeq(r, Len(r) - p + 1, Len(r))])

\* std::scientific with precision p: [mantissa digits (p + 1), exponent]
ScientificDigits(d, p) ==
    LET ipd == NatToDigits(d.ip, 10)
        all == ipd \o d.frac
        nz == {i \in 1..Len(all) : all[i] # 0}
    IN  IF nz = {} THEN [mant |-> Repeat(0, p + 1), exp |-> 0]
        ELSE With(CHOOSE i \in nz : \A j \in nz : i <= j, LAMBDA k :
                 With(RoundDigits(SubSeq(all, k, Len(all)), p + 1, d.exact), LAMBDA r :
                     IF Len(r) > p + 1
                     THEN [mant |-> Take(r, p + 1), exp |-> Len(ipd) - k + 1]
                     ELSE [mant |-> r, exp |-> Len(ipd) - k]))

RECURSIVE StripTrailingZeros(_)
StripTrailingZeros(ds) ==
    IF ds # <<>> /\ ds[Len(ds)] = 0 THEN StripTrailingZeros(SubSeq(ds, 1, Len(ds) - 1))
    ELSE ds

FixedText(parts, grouping) ==
    (IF grouping THEN GroupThousands(DigitText(parts.int)) ELSE DigitText(parts.int))
    \o (IF parts.frac = <<>> THEN <<>> ELSE <<".">> \o DigitText(parts.frac))

ScientificText(parts, uppercase) ==
    LET e == IF parts.exp < 0 THEN -parts.exp ELSE parts.exp
    IN  <<Digits[parts.mant[1] + 1]>>
        \o (IF Len(parts.mant) > 1 THEN <<".">> \o DigitText(Tail(parts.mant)) ELSE <<>>)
        \o <<IF uppercase THEN "E" ELSE "e", IF parts.exp < 0 THEN "-" ELSE "+">>
        \o (IF e < 10 THEN <<"0">> ELSE <<>>) \o NatToText(e)

\* the default floatfield (printf %g) with precision p
GeneralText(d, p, fl) ==
    LET P == IF p = 0 THEN 1 ELSE p IN
    With(ScientificDigits(d, P - 1), LAMBDA sci :
        IF sci.exp < -4 \/ sci.exp >= P
        THEN ScientificText([sci EXCEPT !.mant =
                                IF StripTrailingZeros(sci.mant) = <<>> THEN <<0>>
                                ELSE StripTrailingZeros(sci.mant)], fl.uppercase)
        ELSE With(FixedDigits(d, P - 1 - sci.exp), LAMBDA fx :
                 FixedText([fx EXCEPT !.frac = StripTrailingZeros(fx.frac)], fl.grouping)))

\* ostr << value  for a long double; nanText is the build's spelling of NaN
PutFloat(d, fl, nanText) ==
    IF d.nan
    THEN PadField(<<>>, IF fl.uppercase
                        THEN [i \in 1..Len(nanText) |->
                                IF nanText[i] = "n" THEN "N"
                                ELSE IF nanText[i] = "a" THEN "A" ELSE nanText[i]]
                        ELSE nanText,
                  [fl EXCEPT !.adjust = IF fl.adjust = "left" THEN "left" ELSE "right"])
    ELSE LET sign == IF d.neg THEN <<"-">> ELSE IF fl.showpos THEN <<"+">> ELSE <<>>
             body == IF fl.floatfield = "fixed"
                     THEN FixedText(FixedDigits(d, fl.precision), fl.grouping)
                     ELSE IF fl.floatfield = "scientific"
                     THEN ScientificText(ScientificDigits(d, fl.precision), fl.uppercase)
                     ELSE GeneralText(d, fl.precision, fl)
         IN  PadField(sign, body, fl)

-----------------------------------------------------------------------------
(* Numeric Formatting Engine: integers *)

\* the stream settings shared by the three Preprocess functions
BaseFlags(sp) ==
    [DefaultFlags EXCEPT !.width = sp.width,
                         !.fill = IF sp.fill # NUL THEN sp.fill ELSE " "]

\* std::locale(""): the host's locale; the classic locale groups nothing
HostLocaleGrouping == FALSE

\* the sign and the alignment of a number set on the stream
SignAndAlignFlags(sp, f0) ==
    With(IF sp.sign = FORMAT_SIGN_ALWAYS_TOGGLE THEN [f0 EXCEPT !.showpos = TRUE]
         ELSE IF sp.sign = FORMAT_SIGN_POSITIVE_SPACE_TOGGLE THEN [f0 EXCEPT !.width = 0]
         ELSE f0, LAMBDA f1 :
        IF sp.align = FORMAT_ALIGN_LEFT THEN [f1 EXCEPT !.adjust = "left"]
        ELSE IF sp.align = FORMAT_ALIGN_INTERNAL THEN [f1 EXCEPT !.adjust = "internal"]
        ELSE IF sp.align = FORMAT_ALIGN_CENTER THEN [f1 EXCEPT !.width = 0]
        ELSE [f1 EXCEPT !.adjust = "right"])

PreprocessStreamForInteger(sp, x) ==
    With(SignAndAlignFlags(sp, [BaseFlags(sp) EXCEPT !.grouping = sp.thousandSeparator]),
         LAMBDA f2 :
        IF sp.type = "b"
        THEN [fl |-> f2, useValue |-> FALSE,
              written |-> PutString(DigitText(StripLeadingZeros(IntBits(x))), f2)]
        ELSE IF sp.type = "o"
        THEN [fl |-> [f2 EXCEPT !.base = 8], useValue |-> TRUE, written |-> <<>>]
        ELSE IF sp.type = "X"
        THEN [fl |-> [f2 EXCEPT !.base = 16, !.uppercase = TRUE], useValue |-> TRUE,
              written |-> <<>>]
        ELSE IF sp.type = "x"
        THEN [fl |-> [f2 EXCEPT !.base = 16], useValue |-> TRUE, written |-> <<>>]
        ELSE IF sp.type = "n"
        THEN [fl |-> [f2 EXCEPT !.grouping = HostLocaleGrouping], useValue |-> TRUE,
              written |-> <<>>]
        ELSE [fl |-> f2, useValue |-> TRUE, written |-> <<>>])

\* strchr("boxX", type) also finds the terminator when no type is given
HasBasePrefixRoom(sp) == sp.alternateForm /\ sp.type \in {"b", "o", "x", "X", NUL}

AlternatePrefix(sp) ==
    IF ~sp.alternateForm THEN <<>>
    ELSE IF sp.type = "b" THEN <<"0", "b">>
    ELSE IF sp.type = "o" THEN <<"0", "o">>
    ELSE IF sp.type = "x" THEN <<"0", "x">>
    ELSE IF sp.type = "X" THEN <<"0", "X">>
    ELSE <<>>

\* [left padding][sign][center padding][prefix][written][suffix][right padding]
\* shared by PostprocessStreamForInteger and PostprocessStreamForDecimal
PostprocessNumber(writtenString, sp, negative, nonNegative, suffix) ==
    LET spaceSign == sp.sign = FORMAT_SIGN_POSITIVE_SPACE_TOGGLE
        addPadding == spaceSign \/ sp.align = FORMAT_ALIGN_CENTER
        fillCharToUse == IF sp.fill # NUL THEN sp.fill ELSE " "
        eraseSign == spaceSign /\ negative /\ sp.align = FORMAT_ALIGN_INTERNAL
        written == IF eraseSign THEN Drop(writtenString, 1) ELSE writtenString
        contentWidth == Len(writtenString)
                        + (IF spaceSign /\ nonNegative THEN 1 ELSE 0)
                        + (IF HasBasePrefixRoom(sp) THEN 2 ELSE 0)
        gap == sp.width - contentWidth
        paddingLeft == IF ~addPadding THEN 0
                       ELSE IF sp.align = FORMAT_ALIGN_LEFT THEN 0
                       ELSE IF sp.align = FORMAT_ALIGN_CENTER
                       THEN (IF gap >= 0 THEN gap \div 2 ELSE -((-gap) \div 2))
                       ELSE IF sp.align = FORMAT_ALIGN_INTERNAL THEN 0
                       ELSE gap
        paddingCenter == IF addPadding /\ sp.align = FORMAT_ALIGN_INTERNAL THEN gap ELSE 0
        paddingRight == IF ~addPadding THEN 0
                        ELSE IF sp.align = FORMAT_ALIGN_LEFT THEN gap
                        ELSE IF sp.align = FORMAT_ALIGN_CENTER
                        THEN sp.width - paddingLeft - contentWidth
                        ELSE 0
    IN  Repeat(fillCharToUse, paddingLeft)
        \o (IF spaceSign /\ nonNegative THEN <<" ">>
            ELSE IF eraseSign THEN <<"-">> ELSE <<>>)
        \o Repeat(fillCharToUse, paddingCenter)
        \o AlternatePrefix(sp)
        \o written
        \o suffix
        \o Repeat(fillCharToUse, paddingRight)

PostprocessStreamForInteger(writtenString, sp, x) ==
    PostprocessNumber(writtenString, sp, IntIsNegative(x), ~IntIsNegative(x), <<>>)

\* FormatType(int64_t, formatSpecifier, output)
FormatTypeInt(x, fs) ==
    With(ConvertToBasicFormatSpecifiers(fs), LAMBDA sp :
        IF sp.err.kind # "none" THEN [out |-> <<>>, err |-> sp.err]
        ELSE With(PreprocessStreamForInteger(sp, x), LAMBDA pre :
                 IF pre.useValue /\ pre.fl.width >= StackBytes
                 THEN [out |-> <<>>, err |-> StackOverflow]
                 ELSE
                 [out |-> PostprocessStreamForInteger(
                              IF pre.useValue THEN PutInteger(x, pre.fl) ELSE pre.written,
                              sp, x),
                  err |-> NoError]))

-----------------------------------------------------------------------------
(* Textual formatting *)

PreprocessStreamForString(sp) ==
    LET f0 == BaseFlags(sp) IN
    IF sp.align = FORMAT_ALIGN_RIGHT THEN [f0 EXCEPT !.adjust = "right"]
    ELSE IF sp.align = FORMAT_ALIGN_INTERNAL THEN [f0 EXCEPT !.adjust = "internal"]
    ELSE IF sp.align = FORMAT_ALIGN_CENTER THEN [f0 EXCEPT !.width = 0]
    ELSE [f0 EXCEPT !.adjust = "left"]

PostprocessStreamForString(writtenString, sp) ==
    LET truncate == sp.precision > 0 /\ sp.precision < Len(writtenString)
        written == IF truncate THEN Take(writtenString, sp.precision) ELSE writtenString
        contentWidth == Len(written)
        addPadding == sp.align = FORMAT_ALIGN_CENTER
                      \/ (truncate /\ sp.width > sp.precision)
        fillCharToUse == IF sp.fill # NUL THEN sp.fill ELSE " "
        gap == sp.width - contentWidth
        paddingLeft == IF ~addPadding THEN 0
                       ELSE IF sp.align = FORMAT_ALIGN_LEFT THEN 0
                       ELSE IF sp.align = FORMAT_ALIGN_CENTER
                       THEN (IF gap >= 0 THEN gap \div 2 ELSE -((-gap) \div 2))
                       ELSE gap
        paddingRight == IF ~addPadding THEN 0
                        ELSE IF sp.align = FORMAT_ALIGN_LEFT THEN gap
                        ELSE IF sp.align = FORMAT_ALIGN_CENTER
                        THEN sp.width - paddingLeft - contentWidth
                        ELSE 0
    IN  Repeat(fillCharToUse, paddingLeft) \o written \o Repeat(fillCharToUse, paddingRight)

\* FormatType(const char*, formatSpecifier, output)
FormatTypeStr(text, fs) ==
    With(ConvertToBasicFormatSpecifiers(fs), LAMBDA sp :
        IF sp.err.kind # "none" THEN [out |-> <<>>, err |-> sp.err]
        ELSE [out |-> PostprocessStreamForString(
                          PutString(text, PreprocessStreamForString(sp)), sp),
              err |-> NoError])

-----------------------------------------------------------------------------
(* Numeric Formatting Engine: floating point *)

\* the number written by a sequence of decimal digits
RECURSIVE DigitsValue(_)
DigitsValue(ds) ==
    IF ds = <<>> THEN 0 ELSE 10 * DigitsValue(SubSeq(ds, 1, Len(ds) - 1)) + ds[Len(ds)]

\* value *= 100.0
TimesHundred(d) ==
    IF d.nan THEN d
    ELSE [d EXCEPT !.ip = 100 * d.ip + DigitsValue(Take(d.frac, 2)),
                   !.frac = Drop(d.frac, 2) \o Repeat(0, Len(Take(d.frac, 2)))]

PreprocessStreamForDecimal(sp, d) ==
    With(SignAndAlignFlags(sp, [BaseFlags(sp) EXCEPT
                                   !.precision = IF sp.precision >= 0 THEN sp.precision ELSE 6,
                                   !.grouping = sp.thousandSeparator]), LAMBDA f2 :
    With([fl |-> f2, value |-> d, useDynamic |-> TRUE,
          minPrecision |-> DOUBLE_MIN_DEFAULT_PRECISION,
          maxPrecision |-> DOUBLE_MAX_DEFAULT_PRECISION,
          scientificCeil |-> 0], LAMBDA dflt :
    LET unset == sp.precision = PRECISION_NOT_SET
    IN  IF sp.type \in {"e", "E"}
        THEN [dflt EXCEPT !.fl = [f2 EXCEPT !.uppercase = sp.type = "E",
                                            !.precision = IF unset THEN 6 ELSE @,
                                            !.floatfield = "scientific"],
                          !.useDynamic = ~unset]
        ELSE IF sp.type \in {"g", "G"}
        THEN [dflt EXCEPT !.fl = [f2 EXCEPT !.uppercase = sp.type = "G"],
                          !.minPrecision = 0, !.maxPrecision = 6, !.scientificCeil = 6]
        ELSE IF sp.type = "n"
        THEN [dflt EXCEPT !.fl = [f2 EXCEPT !.grouping = HostLocaleGrouping],
                          !.minPrecision = 0, !.maxPrecision = 6, !.scientificCeil = 6]
        ELSE IF sp.type \in {"%", "F", "f"}
        THEN [dflt EXCEPT !.fl = [f2 EXCEPT !.uppercase = sp.type \in {"%", "F"},
                                            !.precision = IF unset THEN 6 ELSE @,
                                            !.floatfield = "fixed"],
                          !.value = IF sp.type = "%" THEN TimesHundred(d) ELSE d,
                          !.useDynamic = ~unset]
        ELSE dflt))

\* the number of zero digits at the end of n > 0
RECURSIVE TrailingZeroes(_)
TrailingZeroes(n) == IF n % 10 = 0 THEN 1 + TrailingZeroes(n \div 10) ELSE 0

\* the zero digits right after the point
RECURSIVE LeadingZeroes(_)
LeadingZeroes(frac) ==
    IF frac # <<>> /\ Head(frac) = 0 THEN 1 + LeadingZeroes(Tail(frac)) ELSE 0

Min(a, b) == IF a < b THEN a ELSE b
Max(a, b) == IF a > b THEN a ELSE b

\* the decimal digits of the fraction of a double that is not a short decimal:
\* its 53 or more binary places (std::numeric_limits<double>) are as many
\* decimal places
DoubleFractionDigits == 53

\* the turns of  while (precision < f) { f *= 10; ...; f -= std::trunc(f); ++n; }
\* one for every digit of the fraction up to its last non-zero digit; the
\* remainder f is below the epsilon when only zero digits are left, and the
\* loop has no other condition
RECURSIVE DigitLoop(_, _, _)
DigitLoop(frac, exact, n) ==
    IF exact /\ \A i \in 1..Len(frac) : frac[i] = 0 THEN n
    ELSE IF frac = <<>> THEN Max(n, DoubleFractionDigits)
    ELSE DigitLoop(Tail(frac), exact, n + 1)

\* operator << (stream, FormatDynamicDecimal): the precision and notation
\* chosen for the value; scientificLimit = 5
FormatDynamicDecimal(d, minPrecision, maxPrecision, scientificCeil) ==
    LET intVersion == d.ip
        intLogVersion == IF intVersion > 0 THEN Len(NatToDigits(intVersion, 10)) - 1 ELSE 0
        intDigits == IF intVersion > 0 THEN intLogVersion + 1 ELSE 0
        aboveScientificCeil == intVersion > 0 /\ intDigits > scientificCeil
                               /\ scientificCeil > 0
        digitCount == DigitLoop(d.frac, d.exact, 0)
        leadingZeroes == IF intVersion = 0 /\ digitCount > 0 THEN LeadingZeroes(d.frac)
                         ELSE 0
        n1 == Max(digitCount, minPrecision)
        toScientific == ~aboveScientificCeil /\ intDigits < maxPrecision
                        /\ n1 >= 5 /\ leadingZeroes > 0
        n2 == IF aboveScientificCeil THEN intLogVersion - TrailingZeroes(intVersion)
              ELSE IF intDigits < maxPrecision
              THEN (IF toScientific THEN n1 - (leadingZeroes + 1) ELSE n1)
              ELSE 0
        n3 == Min(n2, maxPrecision)
        n == IF aboveScientificCeil THEN (IF n3 = maxPrecision THEN n3 - 1 ELSE n3)
             ELSE IF intDigits + n3 > maxPrecision
             THEN (IF intDigits < n3 THEN n3 - intDigits ELSE 0)
             ELSE n3
    IN  [precision |-> n,
         floatfield |-> IF aboveScientificCeil \/ toScientific THEN "scientific" ELSE "fixed",
         iterations |-> IF ~aboveScientificCeil /\ intDigits < maxPrecision THEN digitCount
                        ELSE 0]

PostprocessStreamForDecimal(writtenString, sp, d) ==
    PostprocessNumber(writtenString, sp, ~d.nan /\ DecIsNegative(d),
                      ~d.nan /\ ~DecIsNegative(d),
                      IF sp.type = "%" THEN <<"%">> ELSE <<>>)

\* the stream flags after  buffer << FormatDynamicDecimal(...)
DynamicFlags(pre) ==
    With(FormatDynamicDecimal(pre.value, pre.minPrecision, pre.maxPrecision,
                              pre.scientificCeil), LAMBDA dyn :
        [pre.fl EXCEPT !.precision = dyn.precision, !.floatfield = dyn.floatfield])

\* FormatType(long double, formatSpecifier, output)
FormatTypeDec(d, fs, plat) ==
    With(ConvertToBasicFormatSpecifiers(fs), LAMBDA sp :
        IF sp.err.kind # "none" THEN [out |-> <<>>, err |-> sp.err]
        ELSE With(PreprocessStreamForDecimal(sp, d), LAMBDA pre :
                 IF pre.fl.width >= StackBytes
                 THEN [out |-> <<>>, err |-> StackOverflow]
                 ELSE
                 [out |-> PostprocessStreamForDecimal(
                              PutFloat(pre.value,
                                       IF pre.useDynamic /\ sp.precision = PRECISION_NOT_SET
                                       THEN DynamicFlags(pre) ELSE pre.fl,
                                       plat.nanText),
                              sp, pre.value),
                  err |-> NoError]))

-----------------------------------------------------------------------------
(* Conversions between representations *)

\* std::to_string(int64_t)
IntToString(x) ==
    (IF IntIsNegative(x) THEN <<"-">> ELSE <<>>)
    \o (IF x.min THEN Int64MinDigits ELSE NatToText(IF x.v < 0 THEN -x.v ELSE x.v))

\* std::to_string(long double): "%Lf"
DecToString(d, plat) ==
    IF d.nan THEN plat.nanText
    ELSE (IF d.neg THEN <<"-">> ELSE <<>>) \o FixedText(FixedDigits(d, 6), FALSE)

\* static_cast<int64_t>(long double); undefined for NaN, where the build
\* decides (INT64_MIN with cvttsd2si, 0 with fcvtzs)
DecToInt(d, plat) ==
    IF d.nan THEN (IF plat.nanInt = "min" THEN Int64Min ELSE IntValue(0))
    ELSE IntValue(IF d.neg THEN -d.ip ELSE d.ip)

RECURSIVE SkipSpace(_, _)
SkipSpace(text, p) ==
    IF CharAt(text, p) \in {" ", "\t", "\n", "\r"} THEN SkipSpace(text, p + 1) ELSE p

RECURSIVE ReadDigits(_, _, _)
ReadDigits(text, p, ds) ==
    IF CharAt(text, p) \in DigitChars
    THEN ReadDigits(text, p + 1, Append(ds, DigitValue(CharAt(text, p))))
    ELSE [pos |-> p, digits |-> ds]

\* std::strtoll(value, &dummy, 10): blanks, a sign, decimal digits; 0 without digits
StrToInt(text) ==
    With(SkipSpace(text, 0), LAMBDA p0 :
    With(ReadDigits(text, IF CharAt(text, p0) \in {"-", "+"} THEN p0 + 1 ELSE p0, <<>>),
         LAMBDA r :
        IntValue(IF CharAt(text, p0) = "-" THEN -DigitsValue(r.digits)
                 ELSE DigitsValue(r.digits))))

\* std::strtold(value, &dummy) for decimal literals without exponent:
\* blanks, a sign, digits, a point, digits; 0 without digits
StrToDec(text) ==
    With(SkipSpace(text, 0), LAMBDA p0 :
    With(ReadDigits(text, IF CharAt(text, p0) \in {"-", "+"} THEN p0 + 1 ELSE p0, <<>>),
         LAMBDA ip :
    With(IF CharAt(text, ip.pos) = "." THEN ReadDigits(text, ip.pos + 1, <<>>)
         ELSE [pos |-> ip.pos, digits |-> <<>>], LAMBDA fr :
        IF ip.digits = <<>> /\ fr.digits = <<>> THEN Dec(FALSE, 0, ZeroFrac, TRUE)
        ELSE Dec(CharAt(text, p0) = "-", DigitsValue(ip.digits),
                 Take(fr.digits, DecDigits) \o Repeat(0, DecDigits - Len(fr.digits)),
                 \A i \in (DecDigits + 1)..Len(fr.digits) : fr.digits[i] = 0))))

-----------------------------------------------------------------------------
(* Type-Directed Renderer.  Values are tagged with their C++ type:         *)
(*   int (IntValue), dec (Dec), bool, str, seq (a container with iterator),*)
(*   map (std::map<std::string, T>, pairs in key order).                   *)

Bool(b) == [kind |-> "bool", b |-> b]
Str(s) == [kind |-> "str", s |-> s]
SeqOf(elems) == [kind |-> "seq", elems |-> elems]
MapOf(pairs) == [kind |-> "map", pairs |-> pairs]

FORMAT_ARRAY_OPEN == <<"[">>
FORMAT_ARRAY_CLOSE == <<"]">>
FORMAT_ARRAY_SEP == <<",", " ">>
FORMAT_MAP_OPEN == <<"{">>
FORMAT_MAP_CLOSE == <<"}">>
FORMAT_MAP_SEP == <<",", " ">>
FORMAT_PAIR_OPEN == <<>>
FORMAT_PAIR_CLOSE == <<>>
FORMAT_PAIR_SEP == <<":", " ">>

\* chain two writes to one stream; an exception of the first ends both
Then(a, b) == IF a.err.kind # "none" THEN a
              ELSE [out |-> a.out \o b.out, err |-> b.err]
Lit(text) == [out |-> text, err |-> NoError]

RECURSIVE FormatType(_, _, _)
RECURSIVE FormatElements(_, _, _, _, _)

\* the loop of the container overloads: separator before all but the first
FormatElements(elems, first, sep, fs, plat) ==
    IF elems = <<>> THEN Lit(<<>>)
    ELSE Then(Then(Lit(IF first THEN <<>> ELSE sep), FormatType(Head(elems), fs, plat)),
              FormatElements(Tail(elems), FALSE, sep, fs, plat))

\* FormatType(value, formatSpecifier, output), by overload
FormatType(value, fs, plat) ==
    IF value.kind = "int" THEN FormatTypeInt(value, fs)
    ELSE IF value.kind = "bool" THEN FormatTypeInt(IntValue(IF value.b THEN 1 ELSE 0), fs)
    ELSE IF value.kind = "dec" THEN FormatTypeDec(value, fs, plat)
    ELSE IF value.kind = "str" THEN FormatTypeStr(value.s, fs)
    ELSE IF value.kind = "seq"
    THEN Then(Then(Lit(FORMAT_ARRAY_OPEN),
                   FormatElements(value.elems, TRUE, FORMAT_ARRAY_SEP, fs, plat)),
              Lit(FORMAT_ARRAY_CLOSE))
    ELSE IF value.kind = "map"
    THEN Then(Then(Lit(FORMAT_MAP_OPEN),
                   FormatElements([i \in 1..Len(value.pairs) |->
                                      [kind |-> "pair", first |-> Str(value.pairs[i].key),
                                       second |-> value.pairs[i].val]],
                                  TRUE, FORMAT_MAP_SEP, fs, plat)),
              Lit(FORMAT_MAP_CLOSE))
    ELSE \* pair
         Then(Then(Then(Then(Lit(FORMAT_PAIR_OPEN), FormatType(value.first, fs, plat)),
                        Lit(FORMAT_PAIR_SEP)),
                   FormatType(value.second, fs, plat)),
              Lit(FORMAT_PAIR_CLOSE))

Abs(n) == IF n < 0 THEN -n ELSE n

\* a lookup that finds the first key of the map only
MapHasKeyFirstOnly(m, k) == m.pairs # <<>> /\ m.pairs[1].key = k

MapHasKey(m, k) == \E i \in 1..Len(m.pairs) : m.pairs[i].key = k
MapAt(m, k) == m.pairs[CHOOSE i \in 1..Len(m.pairs) : m.pairs[i].key = k].val

\* the result of a ConvertAndFormatType overload: its return value, what it
\* wrote, the selectors it left in the fragment, and an exception if any
Converted(r, selectors) ==
    [handled |-> TRUE, out |-> r.out, err |-> r.err, selectors |-> selectors]

\* ConvertAndFormatType(long double, fragment, output)
ConvertAndFormatTypeDec(d, conv, fs, selectors, plat) ==
    Converted(IF conv \in {"s", "r"} THEN FormatTypeStr(DecToString(d, plat), fs)
              ELSE IF conv = "i" THEN FormatTypeInt(DecToInt(d, plat), fs)
              ELSE FormatTypeDec(d, fs, plat),
              selectors)

\* ConvertAndFormatType(int64_t, fragment, output)
RECURSIVE ConvertAndFormatTypeInt(_, _, _, _, _)
ConvertAndFormatTypeInt(x, conv, fs, selectors, plat) ==
    LET selector == Head(selectors)
        rest == IF selectors = <<>> THEN <<>> ELSE Tail(selectors)
    IN  IF selectors # <<>> /\ selector = <<"a", "b", "s">>
        THEN ConvertAndFormatTypeInt(IntValue(Abs(x.v)), conv, fs, rest, plat)
        ELSE IF selectors # <<>> /\ selector = <<"s", "i", "g", "n">>
        THEN ConvertAndFormatTypeInt(IntValue(IF x.v < 0 THEN -1 ELSE 1), conv, fs, rest, plat)
        ELSE IF selectors # <<>> /\ selector = <<"i", "n", "c">>
        THEN ConvertAndFormatTypeInt(IntValue(x.v + 1), conv, fs, rest, plat)
        ELSE IF selectors # <<>> /\ selector = <<"d", "e", "c">>
        THEN ConvertAndFormatTypeInt(IntValue(x.v - 1), conv, fs, rest, plat)
        ELSE IF selectors # <<>> /\ selector = <<"s", "q", "r", "t">>
        THEN ConvertAndFormatTypeDec(SqrtOfInt(x.v), conv, fs, rest, plat)
        ELSE Converted(IF conv \in {"s", "r"} THEN FormatTypeStr(IntToString(x), fs)
                       ELSE IF conv = "d" THEN FormatTypeDec(DecOfInt(x.v), fs, plat)
                       ELSE FormatTypeInt(x, fs),
                       rest)

\* ConvertAndFormatType(bool, fragment, output)
ConvertAndFormatTypeBool(b, conv, fs, selectors, plat) ==
    LET convertToType == IF fs = <<>> THEN "s" ELSE conv IN
    Converted(IF convertToType \in {"s", "r"}
              THEN FormatTypeStr(IF b THEN <<"T", "r", "u", "e">>
                                 ELSE <<"F", "a", "l", "s", "e">>, fs)
              ELSE IF convertToType = "i" THEN FormatTypeInt(IntValue(IF b THEN 1 ELSE 0), fs)
              ELSE IF convertToType = "d"
              THEN FormatTypeDec(DecOfInt(IF b THEN 1 ELSE 0), fs, plat)
              ELSE FormatTypeInt(IntValue(IF b THEN 1 ELSE 0), fs),
              selectors)

\* ConvertAndFormatType(const char*, fragment, output)
ConvertAndFormatTypeStr(text, conv, fs, selectors, plat) ==
    Converted(IF conv = "i" THEN FormatTypeInt(StrToInt(text), fs)
              ELSE IF conv = "d" THEN FormatTypeDec(StrToDec(text), fs, plat)
              ELSE FormatTypeStr(text, fs),
              selectors)

\* ConvertAndFormatType(value, fragment, output), by overload; the template
\* for maps with string keys discards the result of the call it recurses into
RECURSIVE ConvertAndFormatType(_, _, _, _, _)
ConvertAndFormatType(value, conv, fs, selectors, plat) ==
    IF value.kind = "int" THEN ConvertAndFormatTypeInt(value, conv, fs, selectors, plat)
    ELSE IF value.kind = "dec" THEN ConvertAndFormatTypeDec(value, conv, fs, selectors, plat)
    ELSE IF value.kind = "bool"
    THEN ConvertAndFormatTypeBool(value.b, conv, fs, selectors, plat)
    ELSE IF value.kind = "str" THEN ConvertAndFormatTypeStr(value.s, conv, fs, selectors, plat)
    ELSE IF value.kind = "map"
    THEN IF selectors # <<>> /\ MapHasKey(value, Head(selectors))
         THEN [ConvertAndFormatType(MapAt(value, Head(selectors)), conv, fs,
                                    Tail(selectors), plat)
                 EXCEPT !.handled = TRUE]
         ELSE Converted(FormatType(value, fs, plat),
                        IF selectors = <<>> THEN <<>> ELSE Tail(selectors))
    ELSE [handled |-> FALSE, out |-> <<>>, err |-> NoError, selectors |-> selectors]

-----------------------------------------------------------------------------
(* Environment Resolver and Field Descriptor Parser *)

\* std::getenv(name), with a null pointer turned into ""
GetEnv(e, name) == IF name \in DOMAIN e THEN e[name] ELSE <<>>

\* TranslateEnvironmentFragment: the fragment's text is the variable's name
TranslateEnvironmentFragment(fragment, e, plat) ==
    IF fragment.index = FORMAT_ENVIRONMENT_INDEX
    THEN With(ConvertAndFormatTypeStr(GetEnv(e, fragment.text),
                                      fragment.explicitConversion,
                                      fragment.formatSpecifier,
                                      fragment.selectors, plat), LAMBDA r :
             [fragment |-> [fragment EXCEPT !.text = r.out], err |-> r.err])
    ELSE [fragment |-> fragment, err |-> NoError]

Failed(p, e) == [pos |-> p, next |-> 0, frags |-> <<>>, err |-> e]

\* the text that follows the closing bracket of a field
TrailingText(fp, p, next, fragment) ==
    IF CharAt(fp, p) = NUL
    THEN [pos |-> p, next |-> next, frags |-> <<fragment>>, err |-> NoError]
    ELSE With(GetPlainTextFragment(fp, p), LAMBDA t :
             IF t.err.kind # "none" THEN Failed(t.pos, t.err)
             ELSE [pos |-> t.pos, next |-> next,
                   frags |-> IF Len(t.out) > 0
                             THEN <<fragment,
                                    [InitializeFormatFragment(FORMAT_TEXT_INDEX)
                                        EXCEPT !.text = t.out]>>
                             ELSE <<fragment>>,
                   err |-> NoError])

\* the running index counts the fields instead of following their indexes
AdvanceParameterIndexCounting(isEnv, nextIndex, parameterIndex) ==
    IF isEnv THEN nextIndex ELSE nextIndex + 1

\* the running index is set from the field's index for environment fields too
AdvanceParameterIndexAlways(isEnv, nextIndex, parameterIndex) ==
    parameterIndex + 1

\* an environment field steps the running index as an index-less field does
AdvanceParameterIndexPastEnvironment(isEnv, nextIndex, parameterIndex) ==
    IF isEnv THEN nextIndex + 1 ELSE parameterIndex + 1

\* the running index after a field: an environment field leaves it alone,
\* any other field sets it to one more than the index the field got
AdvanceParameterIndex(isEnv, nextIndex, parameterIndex) ==
    IF isEnv THEN nextIndex ELSE parameterIndex + 1

\* ParseFormatParameter: formatParameter[p] is FORMAT_START
ParseFormatParameter(fp, p, nextIndex, e, plat) ==
    With(SkipWhitespace(fp, p + 1), LAMBDA p1 :
    With(CharAt(fp, p1) = FORMAT_ENVIRONMENT, LAMBDA isEnv :
    With(IF isEnv THEN ReadEnvironmentVariableName(fp, p1)
         ELSE [pos |-> p1, out |-> <<>>], LAMBDA name :
    With(IF isEnv THEN [val |-> FORMAT_ENVIRONMENT_INDEX, pos |-> name.pos, err |-> NoError]
         ELSE ParseIntegerNumber(fp, p1, FALSE, nextIndex), LAMBDA num :
    IF num.err.kind # "none" THEN Failed(num.pos, num.err)
    ELSE
    With(ReadSelectors(fp, num.pos, <<>>), LAMBDA sel :
    IF sel.err.kind # "none" THEN Failed(sel.pos, sel.err)
    ELSE
    With(ReadExplicitTypeConversion(fp, sel.pos), LAMBDA conv :
    IF conv.err.kind # "none" THEN Failed(conv.pos, conv.err)
    ELSE
    With(ParseFormatSpecifier(fp, conv.pos), LAMBDA spec :
    IF spec.err.kind # "none" THEN Failed(spec.pos, spec.err)
    ELSE
    With(TranslateEnvironmentFragment(
             [InitializeFormatFragment(num.val) EXCEPT
                 !.text = name.out,
                 !.selectors = sel.selectors,
                 !.explicitConversion = conv.conv,
                 !.formatSpecifier = spec.out], e, plat), LAMBDA tr :
    IF tr.err.kind # "none" THEN Failed(spec.pos, tr.err)
    ELSE
    With(SkipWhitespace(fp, spec.pos), LAMBDA p3 :
    IF CharAt(fp, p3) # FORMAT_END THEN Failed(p3, ParseError(p3, "closing"))
    ELSE TrailingText(fp, p3 + 1, AdvanceParameterIndex(isEnv, nextIndex, num.val),
                      tr.fragment))))))))))

-----------------------------------------------------------------------------
(* Argument Binder and Fragment Assembler *)

\* the loop of FormatParameter<ArgumentIndex> from fragment k on
RECURSIVE FormatParameterLoop(_, _, _, _, _)
FormatParameterLoop(frags, k, argumentIndex, arg, plat) ==
    IF k > Len(frags) THEN [frags |-> frags, err |-> NoError]
    ELSE IF frags[k].index # argumentIndex
    THEN FormatParameterLoop(frags, k + 1, argumentIndex, arg, plat)
    ELSE With(ConvertAndFormatType(arg, frags[k].explicitConversion,
                                   frags[k].formatSpecifier, frags[k].selectors, plat),
              LAMBDA c :
         IF c.err.kind # "none" THEN [frags |-> frags, err |-> c.err]
         ELSE With(IF c.handled THEN c ELSE FormatType(arg, frags[k].formatSpecifier, plat),
                   LAMBDA f :
              IF f.err.kind # "none" THEN [frags |-> frags, err |-> f.err]
              ELSE FormatParameterLoop([frags EXCEPT ![k].text = f.out,
                                                     ![k].selectors = c.selectors,
                                                     ![k].handled = TRUE],
                                       k + 1, argumentIndex, arg, plat)))

\* the recursion of FormatParameters forgets to step ArgumentIndex
FormatParameterAtZero(frags, argumentIndex, arg, plat) ==
    FormatParameterLoop(frags, 1, 0, arg, plat)

\* a binding step that also empties the literal-text fragments
FormatParameterClearingText(frags, argumentIndex, arg, plat) ==
    With(FormatParameterLoop(frags, 1, argumentIndex, arg, plat), LAMBDA r :
        [r EXCEPT !.frags = [k \in 1..Len(r.frags) |->
                                IF r.frags[k].index = FORMAT_TEXT_INDEX
                                THEN [r.frags[k] EXCEPT !.text = <<>>]
                                ELSE r.frags[k]]])

\* FormatParameter<ArgumentIndex>: every fragment of that index, in order
FormatParameter(frags, argumentIndex, arg, plat) ==
    FormatParameterLoop(frags, 1, argumentIndex, arg, plat)

\* OutputFragments; throwing is compiled in unless
\* FORMAT_DISABLE_THROW_OUT_OF_RANGE is defined
RECURSIVE OutputFragments(_, _, _)
OutputFragments(frags, isStrict, out) ==
    IF frags = <<>> THEN [out |-> out, err |-> NoError]
    ELSE IF isStrict /\ ~Head(frags).handled
    THEN [out |-> out, err |-> RangeError(Head(frags).index)]
    ELSE OutputFragments(Tail(frags), isStrict, out \o Head(frags).text)

-----------------------------------------------------------------------------
(* The render call  Format(formatStr, args...) *)

\* the bytes formatStr points to: the characters, the terminator, and
\* whatever the build has placed behind it (read only by a parser that has
\* stepped over the terminator)
Memory(fp, plat) == fp \o <<NUL>> \o plat.pastEnd

\* ParseFormatStr, first part: the text before the first field goes straight
\* to the output stream; without a field the fragment vector stays empty and
\* Format goes on to OutputFragments
ParseLeadingText ==
    /\ pc = "start"
    /\ \E r \in {GetPlainTextFragment(Memory(formatStr, platform), 0)} :
       IF r.err.kind # "none"
       THEN /\ pc' = "failed"
            /\ error' = r.err
            /\ pos' = r.pos
            /\ UNCHANGED ostr
       ELSE /\ ostr' = r.out
            /\ pos' = r.pos
            /\ pc' = IF CharAt(Memory(formatStr, platform), r.pos) # NUL THEN "parsing"
                     ELSE "output"
            /\ UNCHANGED error
    /\ UNCHANGED <<formatStr, args, env, strict, nextParameterIndex, fragments,
                   argIndex, platform, suspended>>

\* ParseFormatStr, one turn of its loop: ParseFormatParameter
ParseField ==
    /\ pc = "parsing"
    /\ \E r \in {ParseFormatParameter(Memory(formatStr, platform), pos, nextParameterIndex,
                                       env, platform)} :
       IF r.err.kind # "none"
       THEN /\ pc' = "failed"
            /\ error' = r.err
            /\ pos' = r.pos
            /\ UNCHANGED <<nextParameterIndex, fragments>>
       ELSE /\ fragments' = fragments \o r.frags
            /\ nextParameterIndex' = r.next
            /\ pos' = r.pos
            /\ pc' = IF CharAt(Memory(formatStr, platform), r.pos) # NUL THEN "parsing"
                     ELSE IF Len(args) > 0 THEN "binding" ELSE "output"
            /\ UNCHANGED error
    /\ UNCHANGED <<formatStr, args, env, strict, ostr, argIndex, platform, suspended>>

\* FormatParameters<ArgumentIndex>: bind the next argument
BindArgument ==
    /\ pc = "binding"
    /\ argIndex < Len(args)
    /\ \E r \in {FormatParameter(fragments, argIndex, args[argIndex + 1], platform)} :
       IF r.err.kind # "none"
       THEN /\ pc' = "failed"
            /\ error' = r.err
            /\ UNCHANGED <<fragments, argIndex>>
       ELSE /\ fragments' = r.frags
            /\ argIndex' = argIndex + 1
            /\ pc' = IF argIndex + 1 < Len(args) THEN "binding" ELSE "output"
            /\ UNCHANGED error
    /\ UNCHANGED <<formatStr, args, env, strict, pos, nextParameterIndex, ostr, platform, suspended>>

\* OutputFragments, then  return ostr.str()
Output ==
    /\ pc = "output"
    /\ \E r \in {OutputFragments(fragments, strict, ostr)} :
       IF r.err.kind # "none"
       THEN /\ pc' = "failed"
            /\ error' = r.err
            /\ UNCHANGED ostr
       ELSE /\ pc' = "done"
            /\ ostr' = r.out
            /\ UNCHANGED error
    /\ UNCHANGED <<formatStr, args, env, strict, pos, nextParameterIndex, fragments,
                   argIndex, platform, suspended>>

Next == ParseLeadingText \/ ParseField \/ BindArgument \/ Output

-----------------------------------------------------------------------------
(* Inputs *)

\* all sequences over S of length at most n
RECURSIVE SeqsUpTo(_, _)
SeqsUpTo(S, n) ==
    IF n = 0 THEN {<<>>}
    ELSE LET shorter == SeqsUpTo(S, n - 1) IN
         shorter \cup {Append(t, x) : t \in shorter, x \in S}

\* two builds: x86-64 with glibc, and AArch64; pastEnd is what the memory
\* holds after the terminator of the format string, here another zero byte
Platforms ==
    {[nanText |-> <<"-", "n", "a", "n">>, nanInt |-> "min", pastEnd |-> <<>>],
     [nanText |-> <<"n", "a", "n">>, nanInt |-> "zero", pastEnd |-> <<>>]}
DefaultPlatform == [nanText |-> <<"-", "n", "a", "n">>, nanInt |-> "min", pastEnd |-> <<>>]

\* the environment: E is set, every other name is unset
Environment == (<<"E">> :> <<"v">>)

Left == <<"l", "e", "f", "t">>
Right == <<"r", "i", "g", "h", "t">>

InitWith(templates, argLists, stricts, platforms) ==
    /\ formatStr \in templates
    /\ args \in argLists
    /\ strict \in stricts
    /\ platform \in platforms
    /\ env = Environment
    /\ pc = "start"
    /\ pos = 0
    /\ nextParameterIndex = 0
    /\ fragments = <<>>
    /\ ostr = <<>>
    /\ argIndex = 0
    /\ error = NoError
    /\ suspended = <<>>

\* templates of braces and plain characters: escapes, lone brackets, fields
ScanAlphabet == {"{", "}", "a"}
ScanTemplates == SeqsUpTo(ScanAlphabet, MaxScanLen)
ScanArgs == {<<>>, <<IntValue(7)>>}

InitScan == InitWith(ScanTemplates, ScanArgs, BOOLEAN, {DefaultPlatform})
SpecScan == InitScan /\ [][Next]_vars

\* templates of index-less, indexed and environment fields
IndexPieces == {<<"{", "}">>, <<"{", "0", "}">>, <<"{", "1", "}">>, <<"{", "2", "}">>, <<"{", "$", "E", "}">>, <<" ">>}
IndexTemplates == {Concat(ps) : ps \in SeqsUpTo(IndexPieces, MaxPieces)}
IndexValues == {Str(Left), Str(Right), IntValue(3)}
IndexArgs == SeqsUpTo(IndexValues, MaxArgs)

\* the documented examples
MarchTemplate == <<"{", "}", " ", "{", "}", ",", " ", "{", "0", "}", " ", "{", "}", ",", " ", "{", "0", "}", " ", "{", "}">>
CountdownTemplate == <<"{", "4", "}", ",", " ", "{", "3", "}", ",", " ", "{", "2", "}", ",", " ", "{", "1", "}", ",", " ", "{", "0", "}">>
CountdownArgs == <<IntValue(1), IntValue(2), Str(<<"3">>), IntValue(4), IntValue(5)>>

Init ==
    \/ InitWith(IndexTemplates, IndexArgs, BOOLEAN, {DefaultPlatform})
    \/ InitWith({MarchTemplate}, {<<Str(Left), Str(Right)>>}, BOOLEAN, {DefaultPlatform})
    \/ InitWith({CountdownTemplate}, {CountdownArgs}, BOOLEAN, {DefaultPlatform})
Spec == Init /\ [][Next]_vars

\* templates of one or two fields of argument 0 that carry selectors
Field(body) == <<"{">> \o body \o <<"}">>
ObjectSelector(id) == <<FORMAT_SELECTOR_OBJ>> \o id
ArraySelector(id) == <<FORMAT_SELECTOR_ARRAY_BEGIN>> \o id \o <<FORMAT_SELECTOR_ARRAY_END>>

FunctionNames == {<<"a", "b", "s">>, <<"s", "i", "g", "n">>, <<"i", "n", "c">>, <<"d", "e", "c">>, <<"s", "q", "r", "t">>}
ChainBody(chain) == <<"0">> \o Concat([i \in 1..Len(chain) |-> ObjectSelector(chain[i])])
ChainTemplates == {Field(ChainBody(chain)) : chain \in SeqsUpTo(FunctionNames, MaxChain)}
ChainValues == {-3, 0, 2, 7, 9}
ChainArgs == {<<IntValue(v)>> : v \in ChainValues}

Key1 == <<"k", "e", "y", "1">>
Key2 == <<"k", "e", "y", "2">>
Key3 == <<"k", "e", "y", "3">>
Value1 == <<"v", "a", "l", "u", "e", "1">>
Value2 == <<"v", "a", "l", "u", "e", "2">>
Value3 == <<"v", "a", "l", "u", "e", "3">>
\* the containers of the documented examples, and maps of other mapped types
testMap == MapOf(<<[key |-> Key1, val |-> Str(Value1)], [key |-> Key2, val |-> Str(Value2)], [key |-> Key3, val |-> Str(Value3)]>>)
testVec == SeqOf(<<IntValue(1), IntValue(2), IntValue(3), IntValue(4), IntValue(5)>>)
countMap == MapOf(<<[key |-> Key1, val |-> IntValue(5)], [key |-> Key3, val |-> IntValue(12)]>>)
listMap == MapOf(<<[key |-> Key1, val |-> SeqOf(<<IntValue(1), IntValue(2)>>)], [key |-> Key3, val |-> SeqOf(<<>>)]>>)

KeyNames == {Key1, Key3, <<"n", "o">>, <<"0">>, <<"2">>, <<"4">>}
KeySelectors == {ObjectSelector(k) : k \in KeyNames} \cup {ArraySelector(k) : k \in KeyNames}
PairTemplate(a, b) == Field(<<"0">> \o a) \o <<",", " ">> \o Field(<<"0">> \o b)
PairTemplates == {PairTemplate(a, b) : a, b \in KeySelectors}
VecTemplate == <<"{", "0", ".", "0", "}", ",", " ", "{", "0", "[", "2", "]", "}", ",", " ", "{", "0", ".", "4", "}">>
IncIncSqrtTemplate == <<"{", "0", ".", "i", "n", "c", ".", "i", "n", "c", ".", "s", "q", "r", "t", "}">>
KeyArgs == {<<testMap>>, <<countMap>>, <<listMap>>, <<testVec>>}

InitSel ==
    \/ InitWith(ChainTemplates \cup {IncIncSqrtTemplate}, ChainArgs, {TRUE}, Platforms)
    \/ InitWith(PairTemplates \cup {VecTemplate}, KeyArgs, {TRUE}, {DefaultPlatform})
SpecSel == InitSel /\ [][Next]_vars

-----------------------------------------------------------------------------
(* Properties of the template scanner, checked under SpecScan *)

\* a template without fields, its brackets paired left to right: ok says that
\* every bracket is doubled, out is the template with each pair written once
RECURSIVE Undoubled(_)
Undoubled(t) ==
    IF t = <<>> THEN [ok |-> TRUE, out |-> <<>>]
    ELSE IF Head(t) \in {FORMAT_START, FORMAT_END}
    THEN IF Len(t) >= 2 /\ t[2] = Head(t)
         THEN LET r == Undoubled(SubSeq(t, 3, Len(t))) IN
              [ok |-> r.ok, out |-> <<Head(t)>> \o r.out]
         ELSE [ok |-> FALSE, out |-> <<>>]
    ELSE LET r == Undoubled(Tail(t)) IN [ok |-> r.ok, out |-> <<Head(t)>> \o r.out]

\* C1: a call without arguments on a template whose brackets are all doubled
\* never fails, and it returns the template with every doubled bracket
\* written once and every other character unchanged and in order.
C1_EscapesUndoubled ==
    (args = <<>> /\ Undoubled(formatStr).ok)
        => /\ pc # "failed"
           /\ pc = "done" => ostr = Undoubled(formatStr).out

C1_Witness ==
    /\ pc = "done"
    /\ args = <<>>
    /\ formatStr = <<"a", "{", "{", "}", "}">>
    /\ ostr = <<"a", "{", "}">>

\* literal text without an opening bracket holds a closing bracket that has
\* no partner, pairing left to right
RECURSIVE LoneClose(_)
LoneClose(t) ==
    IF t = <<>> THEN FALSE
    ELSE IF Head(t) = FORMAT_END
    THEN IF Len(t) >= 2 /\ t[2] = FORMAT_END THEN LoneClose(SubSeq(t, 3, Len(t)))
         ELSE TRUE
    ELSE LoneClose(Tail(t))

\* the literal text of a template that is all literal, or one index-less
\* field followed by literal text
LiteralTail(t) ==
    IF Len(t) >= 2 /\ t[1] = FORMAT_START /\ t[2] = FORMAT_END
    THEN SubSeq(t, 3, Len(t)) ELSE t

\* C2: a closing bracket without a partner in literal text, at the start, in
\* the middle or at the very end of the template, makes the call raise a
\* ParseError: parsing never completes and the call ends with no other result.
C2_LoneCloseRaises ==
    (FORMAT_START \notin {LiteralTail(formatStr)[i] : i \in 1..Len(LiteralTail(formatStr))}
     /\ LoneClose(LiteralTail(formatStr)))
        => /\ pc \notin {"binding", "output", "done"}
           /\ pc = "failed" => error.kind = "parse"

-----------------------------------------------------------------------------
(* Properties of indexing and binding, checked under Spec.  The templates  *)
(* of Spec have no escapes and no blanks inside a field.                   *)

\* what is written between the brackets of each field of a template
RECURSIVE FieldsOf(_)
FieldsOf(t) ==
    IF t = <<>> THEN <<>>
    ELSE IF Head(t) = FORMAT_START
    THEN LET close == CHOOSE i \in 1..Len(t) :
                          t[i] = FORMAT_END /\ \A j \in 1..(i - 1) : t[j] # FORMAT_END
         IN  <<SubSeq(t, 2, close - 1)>> \o FieldsOf(SubSeq(t, close + 1, Len(t)))
    ELSE FieldsOf(Tail(t))

\* the index each field is to get when an index-less field follows the
\* nearest preceding field that is not an environment field (prev, -1 if none)
RECURSIVE FollowingIndexes(_, _)
FollowingIndexes(fields, prev) ==
    IF fields = <<>> THEN <<>>
    ELSE LET f == Head(fields)
             idx == IF f = <<>> THEN prev + 1
                    ELSE IF f[1] = FORMAT_ENVIRONMENT THEN FORMAT_ENVIRONMENT_INDEX
                    ELSE DigitValue(f[1])
         IN  <<idx>> \o FollowingIndexes(Tail(fields), IF idx >= 0 THEN idx ELSE prev)

\* the index each field is to get when only index-less fields read and step
\* the running index (count index-less fields so far)
RECURSIVE CountingIndexes(_, _)
CountingIndexes(fields, count) ==
    IF fields = <<>> THEN <<>>
    ELSE LET f == Head(fields) IN
         IF f = <<>> THEN <<count>> \o CountingIndexes(Tail(fields), count + 1)
         ELSE IF f[1] = FORMAT_ENVIRONMENT
         THEN <<FORMAT_ENVIRONMENT_INDEX>> \o CountingIndexes(Tail(fields), count)
         ELSE <<DigitValue(f[1])>> \o CountingIndexes(Tail(fields), count)

IsField(fragment) == fragment.index # FORMAT_TEXT_INDEX
FieldIndexes(frags) ==
    LET fs == SelectSeq(frags, IsField) IN [k \in 1..Len(fs) |-> fs[k].index]

\* the template has been parsed to its end
Parsed == pc \in {"binding", "output", "done"} \/ (pc = "failed" /\ error.kind = "range")

LeftRightThrice == <<"l", "e", "f", "t", " ", "r", "i", "g", "h", "t", ",", " ", "l", "e", "f", "t", " ", "r", "i", "g", "h", "t", ",", " ", "l", "e", "f", "t", " ", "r", "i", "g", "h", "t">>

\* C3: an index-less field gets the index one greater than that of the
\* nearest preceding non-environment field, explicit or automatic, or 0 when
\* there is none; "{} {}, {0} {}, {0} {}" with "left", "right" renders
\* "left right, left right, left right".
C3_IndexFollowsPreviousField ==
    /\ Parsed => FieldIndexes(fragments) = FollowingIndexes(FieldsOf(formatStr), -1)
    /\ (pc = "done" /\ formatStr = MarchTemplate /\ args = <<Str(Left), Str(Right)>>)
           => ostr = LeftRightThrice

C3_Witness ==
    /\ pc = "done"
    /\ formatStr = MarchTemplate
    /\ FieldIndexes(fragments) = <<0, 1, 0, 1, 0, 1>>
    /\ ostr = LeftRightThrice

\* C4 as stated: an explicit index leaves the running index alone, so the
\* k-th index-less field of a template gets index k-1.
C4_ExplicitIndexLeavesCounter ==
    Parsed => FieldIndexes(fragments) = CountingIndexes(FieldsOf(formatStr), 0)

\* C4 as amended: parsing a field with the explicit index i sets the running
\* index to i+1, an index-less field takes the running index and steps it by
\* one, and an environment field leaves the running index unchanged.
C4_ExplicitIndexSetsCounter ==
    [][(pc = "parsing" /\ pc' # "failed")
          => LET c == CharAt(formatStr, pos + 1)
                 field == fragments'[Len(fragments) + 1]
             IN  IF c = FORMAT_ENVIRONMENT
                 THEN nextParameterIndex' = nextParameterIndex
                 ELSE IF c \in DigitChars
                 THEN field.index = DigitValue(c) /\ nextParameterIndex' = DigitValue(c) + 1
                 ELSE field.index = nextParameterIndex
                      /\ nextParameterIndex' = nextParameterIndex + 1]_vars

C4_Witness ==
    /\ formatStr = <<"{", "1", "}", "{", "}">>
    /\ pc = "parsing"
    /\ pos = 3
    /\ nextParameterIndex = 2

\* the text of an argument rendered without specifier
TextOf(value) == IF value.kind = "str" THEN value.s ELSE NatToText(value.v)

\* C5: a field whose index i is below the number of arguments is rendered
\* from argument i and no other, whatever the order of the fields and however
\* many fields share an index; an argument no field refers to is no error:
\* "{4}, {3}, {2}, {1}, {0}" with 1, 2, "3", 4, 5 renders "5, 4, 3, 2, 1".
C5_FieldRendersItsArgument ==
    /\ pc \in {"output", "done"}
           => \A k \in 1..Len(fragments) :
                  fragments[k].index \in 0..(Len(args) - 1)
                      => fragments[k].text = TextOf(args[fragments[k].index + 1])
    /\ pc = "failed" => \E k \in 1..Len(fragments) : fragments[k].index >= Len(args)
    /\ (pc = "done" /\ formatStr = CountdownTemplate)
           => ostr = <<"5", ",", " ", "4", ",", " ", "3", ",", " ", "2", ",", " ", "1">>

C5_Witness ==
    /\ pc = "done"
    /\ formatStr = <<"{", "1", "}", "{", "0", "}", "{", "1", "}">>
    /\ args = <<Str(Left), IntValue(3)>>
    /\ ostr = <<"3", "l", "e", "f", "t", "3">>

\* some field refers to an argument that was not passed
Unbound == \E k \in 1..Len(fragments) : fragments[k].index >= Len(args)

\* C6: in strict mode a call whose template parses fails with the
\* unbound-field error exactly when a field's index is not below the number
\* of arguments; without strict mode the call never fails and every such
\* field contributes the empty text.
C6_StrictUnboundFields ==
    /\ pc = "failed" => (strict /\ error.kind = "range" /\ Unbound)
    /\ (pc = "done" /\ strict) => ~Unbound
    /\ (pc = "done" /\ ~strict)
           => \A k \in 1..Len(fragments) :
                  fragments[k].index >= Len(args) => fragments[k].text = <<>>

C6_Witness ==
    /\ pc = "failed"
    /\ strict
    /\ error = RangeError(1)
    /\ formatStr = <<"{", "0", "}", "{", "}">>
    /\ Len(args) = 1

-----------------------------------------------------------------------------
(* Properties of selectors, checked under SpecSel *)

IndexNames == {<<"0">>, <<"2">>, <<"4">>}
Notations(id) == {ObjectSelector(id), ArraySelector(id)}
ElementText(seq, id) == NatToText(seq.elems[DigitValue(id[1]) + 1].v)

\* C7: a selector on a sequence picks the element at that index, in object
\* and in array notation: "{0.0}, {0[2]}, {0.4}" on {1, 2, 3, 4, 5} renders
\* "1, 3, 5", and a field {0.k} or {0[k]} renders element k and nothing else.
C7_SequenceSelectorPicksElement ==
    /\ (pc = "done" /\ formatStr = VecTemplate /\ args = <<testVec>>)
           => ostr = <<"1", ",", " ", "3", ",", " ", "5">>
    /\ \A j, k \in IndexNames : \A a \in Notations(j), b \in Notations(k) :
           (pc = "done" /\ formatStr = PairTemplate(a, b) /\ args = <<testVec>>)
               => ostr = ElementText(testVec, j) \o <<",", " ">> \o ElementText(testVec, k)

\* C8: on a map with textual keys the fields {0.k} and {0[k]} are parsed to
\* the same selector chain and render the same text, and when k is a key of
\* the map that text is the rendering of the mapped value.
C8_MapNotationsAgree ==
    \A k \in KeyNames :
        (formatStr = PairTemplate(ObjectSelector(k), ArraySelector(k)) /\ args[1].kind = "map")
            => /\ pc = "binding" => /\ fragments[1].selectors = <<k>>
                                   /\ fragments[3].selectors = <<k>>
               /\ pc = "done"
                      => /\ fragments[1].text = fragments[3].text
                         /\ MapHasKey(args[1], k)
                                => fragments[1].text = FormatType(MapAt(args[1], k), <<>>, platform).out

\* the value of an integer after a chain of functions, each applied to the
\* result of the one before; ok is FALSE when a root is not a whole number
RECURSIVE ApplyChain(_, _)
ApplyChain(v, chain) ==
    IF chain = <<>> THEN [ok |-> TRUE, v |-> v]
    ELSE LET f == Head(chain) IN
         IF f = <<"a", "b", "s">> THEN ApplyChain(IF v < 0 THEN -v ELSE v, Tail(chain))
         ELSE IF f = <<"s", "i", "g", "n">> THEN ApplyChain(IF v >= 0 THEN 1 ELSE -1, Tail(chain))
         ELSE IF f = <<"i", "n", "c">> THEN ApplyChain(v + 1, Tail(chain))
         ELSE IF f = <<"d", "e", "c">> THEN ApplyChain(v - 1, Tail(chain))
         ELSE IF v >= 0 /\ \E r \in 0..v : r * r = v
         THEN ApplyChain(CHOOSE r \in 0..v : r * r = v, Tail(chain))
         ELSE [ok |-> FALSE, v |-> 0]

SignedText(n) == IF n < 0 THEN <<"-">> \o NatToText(-n) ELSE NatToText(n)

\* C9: on an integer every selector of a chain over abs, sign, inc, dec and
\* sqrt is consumed and applied first to last, each to the result of the one
\* before, and the text is the rendering of the final value (written as a
\* whole number or with a zero fraction); no selector is skipped.
C9_ChainAppliedInFull ==
    \A chain \in SeqsUpTo(FunctionNames, MaxChain) :
        (pc = "done" /\ formatStr = Field(ChainBody(chain)))
            => /\ fragments[1].selectors = <<>>
               /\ ApplyChain(args[1].v, chain).ok
                      => ostr \in {SignedText(ApplyChain(args[1].v, chain).v),
                                   SignedText(ApplyChain(args[1].v, chain).v) \o <<".", "0">>}

\* the largest whole number whose square is at most v
FloorSqrt(v) == CHOOSE r \in 0..v : r * r <= v /\ (r + 1) * (r + 1) > v

\* C10: sqrt on an integer gives an integer that is rendered as one:
\* "{0.inc.inc.sqrt}" on 7 renders "3", and {0.sqrt} on v >= 0 renders
\* floor(sqrt(v)) without decimal point or fraction.
C10_SqrtRendersInteger ==
    /\ (pc = "done" /\ formatStr = IncIncSqrtTemplate /\ args = <<IntValue(7)>>)
           => ostr = <<"3">>
    /\ (pc = "done" /\ formatStr = Field(ChainBody(<<(<<"s", "q", "r", "t">>)>>))
           /\ args[1].v >= 0)
           => ostr = NatToText(FloorSqrt(args[1].v))

-----------------------------------------------------------------------------
(* Inputs: one field of argument 0 with a conversion and a specifier *)

Conversions == {<<>>, <<"!", "s">>, <<"!", "r">>, <<"!", "i">>, <<"!", "d">>}

\* the field {0 conversion : specifier}; without a specifier the colon is left out
ConvField(conv, s) ==
    Field(<<"0">> \o conv \o (IF s = <<>> THEN <<>> ELSE <<FORMAT_SPECIFIER>> \o s))

AlignTokens == {<<>>, <<"<">>, <<">">>, <<"^">>, <<"=">>,
                <<"*", "<">>, <<"*", ">">>, <<"*", "^">>, <<"*", "=">>}
TextWidths == {<<>>, <<"2">>, <<"6">>}
TextPrecisions == {<<>>, <<".", "1">>, <<".", "2">>, <<".", "4">>}
TextSpecifiers == {a \o w \o p : a \in AlignTokens, w \in TextWidths, p \in TextPrecisions}
TextTemplates == {ConvField(conv, s) : conv \in Conversions, s \in TextSpecifiers}
TextValues == {<<>>, <<"a", "b">>, <<"a", "b", "c", "d">>}
TextArgs == {<<Bool(b)>> : b \in BOOLEAN} \cup {<<Str(t)>> : t \in TextValues}

InitText == InitWith(TextTemplates, TextArgs, {TRUE}, {DefaultPlatform})
SpecText == InitText /\ [][Next]_vars

-----------------------------------------------------------------------------
(* Claims about SpecText *)

TrueText == <<"T", "r", "u", "e">>
FalseText == <<"F", "a", "l", "s", "e">>

\* what the claim expects of a boolean: the words without conversion and
\* specifier, the decimal rendering of 1.0/0.0 for !d, the integral rendering
\* of 1/0 otherwise
BoolText(b, conv, s) ==
    IF conv = <<>> /\ s = <<>> THEN (IF b THEN TrueText ELSE FalseText)
    ELSE IF conv = <<"!", "d">>
    THEN FormatTypeDec(DecOfInt(IF b THEN 1 ELSE 0), s, DefaultPlatform).out
    ELSE FormatTypeInt(IntValue(IF b THEN 1 ELSE 0), s).out

\* C11: a boolean renders as True/False when its field has neither conversion
\* nor specifier, and through the integral or decimal rendering of 1/0 when
\* the field has a specifier or the conversion !i or !d, the latter also
\* without a specifier
C11_BoolRendering ==
    \A conv \in {<<>>, <<"!", "i">>, <<"!", "d">>}, s \in TextSpecifiers, b \in BOOLEAN :
        (pc = "done" /\ formatStr = ConvField(conv, s) /\ args = <<Bool(b)>>)
            => ostr = BoolText(b, conv, s)

-----------------------------------------------------------------------------
(* Inputs: one integer field  {0:[[fill]align][sign][#][width][type]} *)

SignTokens == {<<>>, <<"+">>, <<"-">>, <<" ">>}
AlternateTokens == {<<>>, <<"#">>}
IntWidths == {<<>>, <<"2">>, <<"6">>}
IntTypes == {<<>>, <<"d">>, <<"b">>, <<"o">>, <<"x">>, <<"X">>}
IntSpecifier(a, sg, alt, w, ty) == a \o sg \o alt \o w \o ty
IntSpecifiers ==
    {IntSpecifier(a, sg, alt, w, ty) :
        a \in AlignTokens, sg \in SignTokens, alt \in AlternateTokens,
        w \in IntWidths, ty \in IntTypes}
IntTemplates == {ConvField(<<>>, s) : s \in IntSpecifiers}
IntValues == {-12, 0, 7, 255}
IntArgs == {<<IntValue(v)>> : v \in IntValues}

InitInt == InitWith(IntTemplates, IntArgs, {TRUE}, {DefaultPlatform})
SpecInt == InitInt /\ [][Next]_vars

-----------------------------------------------------------------------------
(* Claims about SpecInt *)

\* the width a width token asks for
WidthOf(w) == IF w = <<>> THEN 0 ELSE DigitValue(w[1])
\* the fill character and the alignment an align token asks for
FillOf(a) == IF Len(a) = 2 THEN a[1] ELSE " "
AlignOf(a, default) == IF a = <<>> THEN default ELSE a[Len(a)]
\* the sign written for v under a sign option
SignOf(v, sg) == IF v < 0 THEN <<"-">> ELSE IF sg = <<"-">> THEN <<>> ELSE sg

\* sign + body padded to width w with fill, the padding placed by alignment
Aligned(sign, body, w, fill, align) ==
    LET gap == IF w > Len(sign) + Len(body) THEN w - (Len(sign) + Len(body)) ELSE 0
    IN  IF align = "<" THEN sign \o body \o Repeat(fill, gap)
        ELSE IF align = ">" THEN Repeat(fill, gap) \o sign \o body
        ELSE IF align = "^"
        THEN Repeat(fill, gap \div 2) \o sign \o body \o Repeat(fill, gap - gap \div 2)
        ELSE sign \o Repeat(fill, gap) \o body

BaseOf(ty) == IF ty = <<"b">> THEN 2 ELSE IF ty = <<"o">> THEN 8 ELSE 16
PrefixOf(ty) == <<"0">> \o ty
\* the digits of v >= 0 in the base of the type, capitals for X
DigitsIn(v, ty) ==
    [i \in 1..Len(NatToDigits(v, BaseOf(ty))) |->
        IF ty = <<"X">> THEN HexDigitsUpper[NatToDigits(v, BaseOf(ty))[i] + 1]
        ELSE HexDigits[NatToDigits(v, BaseOf(ty))[i] + 1]]

\* C13: with '#', the types b, o, x, X put the prefix 0b, 0o, 0x, 0X directly
\* before the digits and count it in the content that is padded to the
\* width, for every alignment; without a type, or with another type, '#'
\* changes neither the text nor the padding
C13_AlternatePrefix ==
    /\ \A a \in AlignTokens, w \in IntWidths, ty \in {<<"b">>, <<"o">>, <<"x">>, <<"X">>},
          v \in {u \in IntValues : u >= 0} :
           (pc = "done" /\ formatStr = ConvField(<<>>, IntSpecifier(a, <<>>, <<"#">>, w, ty))
            /\ args = <<IntValue(v)>>)
               => ostr = Aligned(<<>>, PrefixOf(ty) \o DigitsIn(v, ty), WidthOf(w),
                                 FillOf(a), AlignOf(a, ">"))
    /\ \A a \in AlignTokens, sg \in SignTokens, w \in IntWidths, ty \in {<<>>, <<"d">>},
          v \in IntValues :
           (pc = "done" /\ formatStr = ConvField(<<>>, IntSpecifier(a, sg, <<"#">>, w, ty))
            /\ args = <<IntValue(v)>>)
               => ostr = Aligned(SignOf(v, sg), NatToText(Abs(v)), WidthOf(w),
                                 FillOf(a), AlignOf(a, ">"))


-----------------------------------------------------------------------------
(* Claims about SpecText: truncation *)

\* the precision a precision token asks for
PrecisionOf(p) == DigitValue(p[2])

\* C14: a text with precision p >= 1 is cut to its first min(p, length)
\* characters and then padded with the fill character to the width, by the
\* field's alignment (left when none is given)
C14_TruncateThenPad ==
    \A a \in AlignTokens, w \in TextWidths, p \in TextPrecisions \ {<<>>}, t \in TextValues :
        (pc = "done" /\ formatStr = ConvField(<<>>, a \o w \o p) /\ args = <<Str(t)>>)
            => ostr = Aligned(<<>>, Take(t, PrecisionOf(p)), WidthOf(w),
                              FillOf(a), AlignOf(a, "<"))


-----------------------------------------------------------------------------
(* Inputs: a field of argument 0 that goes on after the conversion marker *)

\* the longest text after the marker
MaxTail == 3

\* builds that differ in what lies behind the format string's terminator
PastEnds == {<<>>, <<"}">>, <<"x">>}
MemoryPlatforms == {[DefaultPlatform EXCEPT !.pastEnd = m] : m \in PastEnds}

ConvAlphabet == {"s", "r", "i", "d", "x", "}", ":", "5"}
ConvPrefix == <<"{", "0", FORMAT_EXPLICIT_TYPE>>
ConvTemplates == {ConvPrefix \o tail : tail \in SeqsUpTo(ConvAlphabet, MaxTail)}

InitConv == InitWith(ConvTemplates, {<<IntValue(7)>>}, {TRUE}, MemoryPlatforms)
SpecConv == InitConv /\ [][Next]_vars

-----------------------------------------------------------------------------
(* Claims about SpecConv *)

\* C15: after '!' exactly one of s, r, i, d is accepted and stored; any other
\* character there, and the end of the template there, raises a ParseError
\* at the position of that character
C15_ConversionLetter ==
    \A tail \in SeqsUpTo(ConvAlphabet, MaxTail) :
        (formatStr = ConvPrefix \o tail /\ pc \notin {"start", "parsing"})
            => IF CharAt(tail, 0) \in {"s", "r", "i", "d"}
               THEN IF pc = "failed"
                    THEN error.kind = "parse" /\ error.pos > Len(ConvPrefix)
                    ELSE fragments[1].explicitConversion = CharAt(tail, 0)
               ELSE pc = "failed" /\ error.kind = "parse" /\ error.pos = Len(ConvPrefix)


-----------------------------------------------------------------------------
(* Inputs: one field with a decimal literal as index, width or precision *)

\* literals above 2^31 - 1; each has ten digits or goes past 2^31 - 1 with
\* its tenth digit
OversizedLiterals ==
    {<<"2","1","4","7","4","8","3","6","4","8">>, <<"2","1","4","7","4","8","3","6","4","9">>,
     <<"2","9","9","9","9","9","9","9","9","9">>, <<"3","0","0","0","0","0","0","0","0","0">>,
     <<"4","2","9","4","9","6","7","2","9","5">>, <<"4","2","9","4","9","6","7","2","9","6">>,
     <<"4","2","9","4","9","6","7","2","9","7">>, <<"4","2","9","4","9","6","7","3","0","1">>,
     <<"4","2","9","4","9","6","7","2","9","6","0">>,
     <<"4","2","9","4","9","6","7","2","9","6","5">>}
SmallLiterals == {<<"0">>, <<"1">>, <<"7">>}
LiteralPlaces == {"index", "width", "precision"}

\* the field that has the literal in the given place
LiteralField(place, lit) ==
    IF place = "index" THEN Field(lit)
    ELSE IF place = "width" THEN Field(<<"0", FORMAT_SPECIFIER>> \o lit)
    ELSE Field(<<"0", FORMAT_SPECIFIER, FORMAT_PRECISION_TOGGLE>> \o lit)
LiteralTemplates ==
    {LiteralField(place, lit) :
        place \in LiteralPlaces, lit \in OversizedLiterals \cup SmallLiterals}
LiteralArgs == {<<IntValue(7)>>, <<Str(<<"a", "b">>)>>, <<IntValue(7), Str(<<"a", "b">>)>>}

InitLiteral == InitWith(LiteralTemplates, LiteralArgs, BOOLEAN, {DefaultPlatform})
SpecLiteral == InitLiteral /\ [][Next]_vars

-----------------------------------------------------------------------------
(* Claims about SpecLiteral *)

\* the position of a literal's tenth digit in the string that is parsed: the
\* template for an index, the specifier text for a width or a precision
TenthDigit(place) == IF place = "index" THEN 10 ELSE IF place = "width" THEN 9 ELSE 10

\* C16: a literal for an index, a width or a precision that exceeds the
\* largest 32-bit int raises the overflow ParseError at the digit that takes
\* it past that value; the call never goes on with some smaller number
C16_OversizedLiteralRaises ==
    \A place \in LiteralPlaces, lit \in OversizedLiterals :
        (formatStr = LiteralField(place, lit) /\ pc \in {"output", "done", "failed"})
            => /\ pc = "failed"
               /\ error = ParseError(TenthDigit(place), "overflow")


-----------------------------------------------------------------------------
(* Inputs: one integer field whose specifier is built by the specifier      *)
(* grammar  [[fill]align][sign][#][0][width][,][.precision][type], followed *)
(* by characters the grammar has no place for                               *)

ZeroTokens == {<<>>, <<"0">>}
GrammarWidths == {<<>>, <<"5">>}
CommaTokens == {<<>>, <<",">>}
GrammarPrecisions == {<<>>, <<".", "2">>}
GrammarTypes == {<<>>, <<"x">>}
Junk == {<<>>, <<"q">>}

GrammarParts ==
    [a : AlignTokens, sg : SignTokens, alt : AlternateTokens, z : ZeroTokens,
     w : GrammarWidths, c : CommaTokens, p : GrammarPrecisions, ty : GrammarTypes]
GrammarText(g) == g.a \o g.sg \o g.alt \o g.z \o g.w \o g.c \o g.p \o g.ty
GrammarTable ==
    {[template |-> ConvField(<<>>, GrammarText(g) \o j), g |-> g, j |-> j] :
        g \in GrammarParts, j \in Junk}
GrammarTemplates == {t.template : t \in GrammarTable}

InitGrammar == InitWith(GrammarTemplates, {<<IntValue(7)>>}, {TRUE}, {DefaultPlatform})
SpecGrammar == InitGrammar /\ [][Next]_vars

-----------------------------------------------------------------------------
(* Claims about SpecGrammar *)

\* C17: a specifier with characters that no stage of the grammar consumes
\* makes the call raise a ParseError; the field is never rendered with those
\* characters ignored
C17_UnknownSpecifierRaises ==
    pc \in {"done", "failed"} =>
        \A t \in GrammarTable :
            (formatStr = t.template /\ t.j # <<>>)
                => pc = "failed" /\ error.kind = "parse"

\* what the grammar's tokens ask for, as the members of BasicFormatSpecifiers
\* (the fill is left open when both a fill and the '0' flag are given)
Recognised(g, sp) ==
    /\ sp.err = NoError
    /\ sp.align = (IF g.a # <<>> THEN g.a[Len(g.a)]
                   ELSE IF g.z # <<>> THEN FORMAT_ALIGN_INTERNAL ELSE NUL)
    /\ Len(g.a) = 2 /\ g.z = <<>> => sp.fill = g.a[1]
    /\ Len(g.a) < 2 => sp.fill = (IF g.z # <<>> THEN "0" ELSE NUL)
    /\ sp.sign = (IF g.sg = <<>> THEN FORMAT_SIGN_NEGATIVES_TOGGLE ELSE g.sg[1])
    /\ sp.alternateForm = (g.alt # <<>>)
    /\ sp.width = WidthOf(g.w)
    /\ sp.thousandSeparator = (g.c # <<>>)
    /\ sp.precision = (IF g.p = <<>> THEN PRECISION_NOT_SET ELSE PrecisionOf(g.p))
    /\ sp.type = (IF g.ty = <<>> THEN NUL ELSE g.ty[1])
    /\ sp.pos = Len(GrammarText(g))

\* C18: ConvertToBasicFormatSpecifiers recognises every specifier of the
\* grammar, stores each option and leaves pos behind the last recognised
\* character; a specifier that is a single align token sets align and moves
\* pos by one
C18_GrammarRecognised ==
    pc = "done" =>
        \A t \in GrammarTable :
            formatStr = t.template
                => Recognised(t.g, ConvertToBasicFormatSpecifiers(fragments[1].formatSpecifier))


-----------------------------------------------------------------------------
(* Inputs: templates that mix environment fields, with and without a       *)
(* specifier, with index-less and indexed fields                           *)

EnvNames == {<<"E">>, <<"N">>}
EnvSpecs == {[a |-> <<>>, w |-> <<>>], [a |-> <<">">>, w |-> <<"3">>],
             [a |-> <<"*", "^">>, w |-> <<"4">>]}
EnvBody(name, sp) ==
    <<FORMAT_ENVIRONMENT>> \o name
        \o (IF sp.w = <<>> THEN <<>> ELSE <<FORMAT_SPECIFIER>> \o sp.a \o sp.w)
EnvPieces == {Field(EnvBody(name, sp)) : name \in EnvNames, sp \in EnvSpecs}
                 \cup {<<"{", "}">>, <<"{", "1", "}">>}
EnvTemplates == {Concat(ps) : ps \in SeqsUpTo(EnvPieces, MaxPieces)}
EnvArgs == {<<>>, <<Str(Left)>>, <<Str(Left), IntValue(3)>>}

InitEnv == InitWith(EnvTemplates, EnvArgs, BOOLEAN, {DefaultPlatform})
SpecEnv == InitEnv /\ [][Next]_vars

-----------------------------------------------------------------------------
(* Claims about SpecEnv *)

IsEnvField(f) == f # <<>> /\ f[1] = FORMAT_ENVIRONMENT
IsArgumentField(f) == ~IsEnvField(f)
IsArgumentIndex(i) == i >= 0

\* the text an environment field stands for: the variable's value, the empty
\* string when it is unset, padded as the field's specifier asks
EnvText(f) ==
    LET sp == CHOOSE s \in EnvSpecs : \E name \in EnvNames : f = EnvBody(name, s)
        name == CHOOSE n \in EnvNames : f = EnvBody(n, sp)
        value == IF name = <<"E">> THEN <<"v">> ELSE <<>>
    IN  Aligned(<<>>, value, WidthOf(sp.w), FillOf(sp.a), AlignOf(sp.a, "<"))

\* the text of each field of a finished call: an environment field's own
\* text, an argument field's argument, nothing for a field without argument
RECURSIVE FieldTexts(_, _, _)
FieldTexts(fields, indexes, arguments) ==
    IF fields = <<>> THEN <<>>
    ELSE (IF IsEnvField(Head(fields)) THEN EnvText(Head(fields))
          ELSE IF Head(indexes) < Len(arguments) THEN TextOf(arguments[Head(indexes) + 1])
          ELSE <<>>)
         \o FieldTexts(Tail(fields), Tail(indexes), arguments)

\* the indexes the argument fields of a template get when its environment
\* fields are taken out
IndexesWithoutEnv(t) == FollowingIndexes(SelectSeq(FieldsOf(t), IsArgumentField), -1)

\* C19: an environment field is resolved while the template is parsed and
\* takes no part in binding: from the moment its fragment exists, and for any
\* argument list, its text is the variable's value (empty when unset) in the
\* field's own format; it never causes the unbound-field error; and the
\* argument fields get the indexes they would get without it.
C19_EnvironmentField ==
    LET fields == FieldsOf(formatStr)
        fs == SelectSeq(fragments, IsField)
    IN  /\ \A k \in 1..Len(fs) :
               IsEnvField(fields[k])
                   => /\ fs[k].index = FORMAT_ENVIRONMENT_INDEX
                      /\ fs[k].handled
                      /\ fs[k].text = EnvText(fields[k])
        /\ pc = "failed"
               => /\ error.kind = "range"
                  /\ error.index \in 0..2
                  /\ error.index >= Len(args)
                  /\ \E k \in 1..Len(IndexesWithoutEnv(formatStr)) :
                         IndexesWithoutEnv(formatStr)[k] = error.index
        /\ Parsed => SelectSeq(FieldIndexes(fragments), IsArgumentIndex)
                         = IndexesWithoutEnv(formatStr)
        /\ pc = "done" => ostr = FieldTexts(fields, FollowingIndexes(fields, -1), args)

C19_Witness ==
    /\ pc = "done"
    /\ formatStr = <<"{", "}", "{", "$", "E", ":", ">", "3", "}", "{", "}">>
    /\ args = <<Str(Left), IntValue(3)>>
    /\ ostr = <<"l", "e", "f", "t", " ", " ", "v", "3">>


-----------------------------------------------------------------------------
(* Several render calls in one process.  Everything a call works on is an  *)
(* automatic variable of Format and of the functions it calls              *)
(* (std::ostringstream ostr, std::vector<FormatFragment> fragments, pos,   *)
(* nextParameterIndex, the streams of the FormatType functions); the       *)
(* process-wide state a call reads is the environment, the build and the   *)
(* compile-time switch FORMAT_DISABLE_THROW_OUT_OF_RANGE.                  *)

MaxCalls == 2

CallTemplates ==
    {<<"{", "}", "{", "}">>,
     <<"{", "$", "E", "}", "{", "0", ":", ">", "3", "}">>,
     <<"{", "1", "}", "{">>}
CallArgs == {<<IntValue(3)>>, <<Str(Left), IntValue(7)>>}

\* a call that finds the running index where the previous call left it
NewCallKeepsIndex ==
    /\ Len(suspended) + 1 < MaxCalls
    /\ formatStr' \in CallTemplates
    /\ args' \in CallArgs
    /\ pc' = "start"
    /\ pos' = 0
    /\ nextParameterIndex' = nextParameterIndex
    /\ fragments' = <<>>
    /\ ostr' = <<>>
    /\ argIndex' = 0
    /\ error' = NoError
    /\ suspended' = Append(suspended,
           [formatStr |-> formatStr, args |-> args, pc |-> pc, pos |-> pos,
            nextParameterIndex |-> nextParameterIndex, fragments |-> fragments,
            ostr |-> ostr, argIndex |-> argIndex, error |-> error])
    /\ UNCHANGED <<env, strict, platform>>

\* Format is entered once more, on this thread after the present call has
\* ended or on another thread while it is under way: the new call gets
\* automatic variables of its own, freshly constructed
NewCall ==
    /\ Len(suspended) + 1 < MaxCalls
    /\ formatStr' \in CallTemplates
    /\ args' \in CallArgs
    /\ pc' = "start"
    /\ pos' = 0
    /\ nextParameterIndex' = 0
    /\ fragments' = <<>>
    /\ ostr' = <<>>
    /\ argIndex' = 0
    /\ error' = NoError
    /\ suspended' = Append(suspended,
           [formatStr |-> formatStr, args |-> args, pc |-> pc, pos |-> pos,
            nextParameterIndex |-> nextParameterIndex, fragments |-> fragments,
            ostr |-> ostr, argIndex |-> argIndex, error |-> error])
    /\ UNCHANGED <<env, strict, platform>>

\* the processor turns to another call; each call keeps its own variables
Switch ==
    /\ \E i \in 1..Len(suspended) :
        /\ formatStr' = suspended[i].formatStr
        /\ args' = suspended[i].args
        /\ pc' = suspended[i].pc
        /\ pos' = suspended[i].pos
        /\ nextParameterIndex' = suspended[i].nextParameterIndex
        /\ fragments' = suspended[i].fragments
        /\ ostr' = suspended[i].ostr
        /\ argIndex' = suspended[i].argIndex
        /\ error' = suspended[i].error
        /\ suspended' = [suspended EXCEPT ![i] =
               [formatStr |-> formatStr, args |-> args, pc |-> pc, pos |-> pos,
                nextParameterIndex |-> nextParameterIndex, fragments |-> fragments,
                ostr |-> ostr, argIndex |-> argIndex, error |-> error]]
    /\ UNCHANGED <<env, strict, platform>>

NextCalls == Next \/ NewCall \/ Switch

InitCalls == InitWith(CallTemplates, CallArgs, {TRUE}, {DefaultPlatform})
SpecCalls == InitCalls /\ [][NextCalls]_vars

-----------------------------------------------------------------------------
(* Claims about SpecCalls *)

\* ParseFormatStr's loop run to its end
RECURSIVE ParseFields(_, _, _, _, _, _)
ParseFields(mem, p, next, frags, e, plat) ==
    With(ParseFormatParameter(mem, p, next, e, plat), LAMBDA r :
        IF r.err.kind # "none" THEN [frags |-> frags, err |-> r.err]
        ELSE IF CharAt(mem, r.pos) # NUL
        THEN ParseFields(mem, r.pos, r.next, frags \o r.frags, e, plat)
        ELSE [frags |-> frags \o r.frags, err |-> NoError])

\* FormatParameters for the arguments from the i-th on (0-based)
RECURSIVE BindArguments(_, _, _, _)
BindArguments(frags, arguments, i, plat) ==
    IF i >= Len(arguments) THEN [frags |-> frags, err |-> NoError]
    ELSE With(FormatParameter(frags, i, arguments[i + 1], plat), LAMBDA r :
             IF r.err.kind # "none" THEN [frags |-> frags, err |-> r.err]
             ELSE BindArguments(r.frags, arguments, i + 1, plat))

\* the result of a call that runs from its first step to its last with no
\* other call before or beside it: the returned string, or the exception
RenderAlone(fp, arguments, isStrict, e, plat) ==
    With(GetPlainTextFragment(Memory(fp, plat), 0), LAMBDA lead :
        IF lead.err.kind # "none" THEN [out |-> <<>>, err |-> lead.err]
        ELSE IF CharAt(Memory(fp, plat), lead.pos) = NUL
        THEN OutputFragments(<<>>, isStrict, lead.out)
        ELSE With(ParseFields(Memory(fp, plat), lead.pos, 0, <<>>, e, plat), LAMBDA parsed :
                 IF parsed.err.kind # "none" THEN [out |-> <<>>, err |-> parsed.err]
                 ELSE With(BindArguments(parsed.frags, arguments, 0, plat), LAMBDA bound :
                          IF bound.err.kind # "none" THEN [out |-> <<>>, err |-> bound.err]
                          ELSE OutputFragments(bound.frags, isStrict, lead.out))))

\* the result a call has ended with is the result of the same call run alone
SameAsAlone(call) ==
    With(RenderAlone(call.formatStr, call.args, strict, env, platform), LAMBDA alone :
        /\ call.pc = "done" => (alone.err = NoError /\ call.ostr = alone.out)
        /\ call.pc = "failed" => call.error = alone.err)

\* C20: calls share no state that any of them changes: whatever calls ran
\* before it, ended or failed, and however its steps are interleaved with the
\* steps of other calls, a call ends with the result it has when run alone,
\* and no step of a call changes the process-wide state.
C20_CallsShareNoState ==
    /\ [](/\ SameAsAlone([formatStr |-> formatStr, args |-> args, pc |-> pc,
                          ostr |-> ostr, error |-> error])
          /\ \A i \in 1..Len(suspended) : SameAsAlone(suspended[i]))
    /\ [][env' = env /\ strict' = strict /\ platform' = platform]_vars

C20_Witness ==
    /\ pc = "done"
    /\ formatStr = <<"{", "}", "{", "}">>
    /\ args = <<Str(Left), IntValue(7)>>
    /\ ostr = <<"l", "e", "f", "t", "7">>
    /\ Len(suspended) = 1
    /\ suspended[1].formatStr = <<"{", "}", "{", "}">>
    /\ suspended[1].pc = "parsing"
    /\ suspended[1].nextParameterIndex = 1


-----------------------------------------------------------------------------
(* Inputs: well-formed and malformed templates of one field, each rendered *)
(* with no argument, with one and with two                                 *)

ParseIndexes == {<<"0">>, <<"1">>}
ParseWidths == {<<>>, <<"5">>, <<"2","1","4","7","4","8","3","6","4","8">>, <<"-", "-", "1">>}
ParseTemplates ==
    {Field(i \o (IF w = <<>> THEN <<>> ELSE <<FORMAT_SPECIFIER>> \o w)) :
        i \in ParseIndexes, w \in ParseWidths}
    \cup {<<"{", "0">>, <<"{", "0", FORMAT_EXPLICIT_TYPE, "x", "}">>, <<"a", "}", "{", "0", "}">>,
          <<"{", "-", "1", "}">>}
ParseArgs == {<<>>, <<IntValue(7)>>, <<IntValue(7), Str(<<"a", "b">>)>>}

InitParse == InitWith(ParseTemplates, ParseArgs, BOOLEAN, {DefaultPlatform})
SpecParse == InitParse /\ [][Next]_vars

-----------------------------------------------------------------------------
(* Claims about SpecParse *)

\* the exception ParseFormatStr ends with for a template, NoError if it
\* returns; no argument is among its parameters
TemplateError(fp, e, plat) ==
    With(GetPlainTextFragment(Memory(fp, plat), 0), LAMBDA lead :
        IF lead.err.kind # "none" THEN lead.err
        ELSE IF CharAt(Memory(fp, plat), lead.pos) = NUL THEN NoError
        ELSE ParseFields(Memory(fp, plat), lead.pos, 0, <<>>, e, plat).err)

\* C21: whether a call raises a ParseError, and which, is decided by the
\* template alone and before any argument is looked at: a call ends with a
\* ParseError exactly when parsing its template raises it, and no ParseError
\* is raised once binding has begun.
C21_ParseErrorsFromTemplateOnly ==
    /\ [](pc \in {"done", "failed"}
             => IF pc = "failed" /\ error.kind = "parse"
                THEN error = TemplateError(formatStr, env, platform)
                ELSE TemplateError(formatStr, env, platform) = NoError)
    /\ [][pc = "binding" => ~(pc' = "failed" /\ error'.kind = "parse")]_vars


-----------------------------------------------------------------------------
(* Inputs: one floating-point field with a precision and a presentation     *)
(* type                                                                     *)

\* 2.7182818284590452353603L, cut to the digits a value keeps
EulerDigits == <<7, 1, 8, 2, 8, 1, 8, 2>>
Euler == Dec(FALSE, 2, Take(EulerDigits, DecDigits), FALSE)

FloatPrecisions == {<<>>, <<".", "0">>, <<".", "1">>, <<".", "2">>, <<".", "3">>, <<".", "4">>}
FloatTypes == {<<>>, <<"f">>, <<"e">>, <<"g">>}
FloatTemplates == {ConvField(<<>>, p \o ty) : p \in FloatPrecisions, ty \in FloatTypes}
FloatValues ==
    {Euler, Dec(FALSE, 1, <<5>> \o Repeat(0, DecDigits - 1), TRUE),
     Dec(TRUE, 12, <<2, 5>> \o Repeat(0, DecDigits - 2), TRUE), DecOfInt(3)}
FloatArgs == {<<v>> : v \in FloatValues}

InitFloat == InitWith(FloatTemplates, FloatArgs, {TRUE}, {DefaultPlatform})
SpecFloat == InitFloat /\ [][Next]_vars

-----------------------------------------------------------------------------
(* Claims about SpecFloat *)

\* the number of characters behind the decimal point of a rendered number
DigitsAfterPoint(text) ==
    IF \E i \in 1..Len(text) : text[i] = "."
    THEN Len(text) - (CHOOSE i \in 1..Len(text) : text[i] = ".")
    ELSE 0

\* C22: a precision p without presentation type gives a floating-point
\* value p digits after the decimal point; 2.7182818284590452353603 renders
\* as "2", "2.7", "2.72", "2.718", "2.7183" with .0, .1, .2, .3, .4.
C22_PrecisionDigits ==
    pc = "done" =>
        /\ \A p \in FloatPrecisions \ {<<>>} :
               formatStr = ConvField(<<>>, p) => DigitsAfterPoint(ostr) = PrecisionOf(p)
        /\ args = <<Euler>> =>
               /\ formatStr = ConvField(<<>>, <<".", "0">>) => ostr = <<"2">>
               /\ formatStr = ConvField(<<>>, <<".", "1">>) => ostr = <<"2", ".", "7">>
               /\ formatStr = ConvField(<<>>, <<".", "2">>) => ostr = <<"2", ".", "7", "2">>
               /\ formatStr = ConvField(<<>>, <<".", "3">>) => ostr = <<"2", ".", "7", "1", "8">>
               /\ formatStr = ConvField(<<>>, <<".", "4">>)
                      => ostr = <<"2", ".", "7", "1", "8", "3">>


-----------------------------------------------------------------------------
(* Inputs: one field with a selector chain, rendered with an integer, a    *)
(* text, a floating-point value or a boolean                               *)

ScalarSelectorNames == {<<"f", "o", "o">>, <<"1">>, <<"i", "n", "c">>, <<"s", "q", "r", "t">>}
ScalarChains ==
    {<<>>} \cup {ObjectSelector(n) : n \in ScalarSelectorNames}
           \cup {ArraySelector(n) : n \in ScalarSelectorNames}
           \cup {ObjectSelector(<<"i", "n", "c">>) \o ObjectSelector(n) : n \in ScalarSelectorNames}
ScalarTemplates == {Field(<<"0">> \o ch) : ch \in ScalarChains}
ScalarValues ==
    {IntValue(7), Str(<<"a", "b">>), Dec(FALSE, 1, <<5>> \o Repeat(0, DecDigits - 1), TRUE),
     Bool(TRUE)}
ScalarArgs == {<<v>> : v \in ScalarValues}

InitScalar == InitWith(ScalarTemplates, ScalarArgs, BOOLEAN, {DefaultPlatform})
SpecScalar == InitScalar /\ [][Next]_vars

-----------------------------------------------------------------------------
(* Claims about SpecScalar *)

\* the selector names an integer knows
MutatorNames == {<<"a", "b", "s">>, <<"s", "i", "g", "n">>, <<"i", "n", "c">>,
                 <<"d", "e", "c">>, <<"s", "q", "r", "t">>}

\* the value has what the selector asks for: only an integer has, for one of
\* its mutators
Capable(value, name) == value.kind = "int" /\ name \in MutatorNames

\* C23: a selector applied to a value that lacks the capability (an unknown
\* name on an integer, anything on a text, a floating-point value or a
\* boolean) ends the call with an error; the value is never rendered as if
\* the selector were not there.
C23_SelectorWithoutCapability ==
    pc \in {"done", "failed"} =>
        \A n \in ScalarSelectorNames :
            (formatStr \in {Field(<<"0">> \o ObjectSelector(n)),
                            Field(<<"0">> \o ArraySelector(n))}
             /\ ~Capable(args[1], n))
                => pc = "failed"


-----------------------------------------------------------------------------
(* Inputs: one field of a map argument with a selector chain and a          *)
(* specifier; the maps hold texts, integers, sequences, pairs,              *)
(* floating-point values and booleans                                       *)

PairOf(a, b) == [kind |-> "pair", first |-> a, second |-> b]
pairMap == MapOf(<<[key |-> Key1, val |-> PairOf(IntValue(1), IntValue(2))]>>)
decMap == MapOf(<<[key |-> Key1, val |-> Dec(FALSE, 1, <<5>> \o Repeat(0, DecDigits - 1), TRUE)]>>)
boolMap == MapOf(<<[key |-> Key1, val |-> Bool(TRUE)]>>)

MapChains ==
    {<<>>, <<<<"n", "o">>>>, <<Key1>>, <<Key3>>, <<Key1, <<"i", "n", "c">>>>,
     <<<<"n", "o">>, Key1>>}
MapSpecs == {[a |-> <<>>, w |-> <<>>], [a |-> <<">">>, w |-> <<"6">>],
             [a |-> <<"*", "<">>, w |-> <<"5">>]}
RECURSIVE ChainText(_)
ChainText(chain) ==
    IF chain = <<>> THEN <<>> ELSE ObjectSelector(Head(chain)) \o ChainText(Tail(chain))
MapField(chain, sp) ==
    Field(<<"0">> \o ChainText(chain)
              \o (IF sp.w = <<>> THEN <<>> ELSE <<FORMAT_SPECIFIER>> \o sp.a \o sp.w))
MapTable == {[template |-> MapField(chain, sp), chain |-> chain, sp |-> sp] :
                chain \in MapChains, sp \in MapSpecs}
MapTemplates == {t.template : t \in MapTable}
MapArgs == {<<testMap>>, <<countMap>>, <<listMap>>, <<pairMap>>, <<decMap>>, <<boolMap>>}

InitMap == InitWith(MapTemplates, MapArgs, {TRUE}, {DefaultPlatform})
SpecMap == InitMap /\ [][Next]_vars

-----------------------------------------------------------------------------
(* Claims about SpecMap *)

RECURSIVE JoinTexts(_, _)
JoinTexts(texts, sep) ==
    IF texts = <<>> THEN <<>>
    ELSE IF Len(texts) = 1 THEN texts[1]
    ELSE texts[1] \o sep \o JoinTexts(Tail(texts), sep)

\* the rendering of a value under a specifier of fill, align and width:
\* numbers to the right by default, text to the left, the specifier handed
\* down to every element, key and value
RECURSIVE Rendering(_, _)
Rendering(v, sp) ==
    IF v.kind = "int"
    THEN Aligned(IF v.v < 0 THEN <<"-">> ELSE <<>>, NatToText(Abs(v.v)),
                 WidthOf(sp.w), FillOf(sp.a), AlignOf(sp.a, ">"))
    ELSE IF v.kind = "bool"
    THEN Aligned(<<>>, IF v.b THEN <<"1">> ELSE <<"0">>,
                 WidthOf(sp.w), FillOf(sp.a), AlignOf(sp.a, ">"))
    ELSE IF v.kind = "dec"
    THEN Aligned(IF v.neg THEN <<"-">> ELSE <<>>,
                 NatToText(v.ip) \o <<".">>
                     \o (IF StripTrailingZeros(v.frac) = <<>> THEN <<"0">>
                         ELSE DigitText(StripTrailingZeros(v.frac))),
                 WidthOf(sp.w), FillOf(sp.a), AlignOf(sp.a, ">"))
    ELSE IF v.kind = "str"
    THEN Aligned(<<>>, v.s, WidthOf(sp.w), FillOf(sp.a), AlignOf(sp.a, "<"))
    ELSE IF v.kind = "seq"
    THEN <<"[">> \o JoinTexts([i \in 1..Len(v.elems) |-> Rendering(v.elems[i], sp)],
                              <<",", " ">>) \o <<"]">>
    ELSE IF v.kind = "pair"
    THEN Rendering(v.first, sp) \o <<":", " ">> \o Rendering(v.second, sp)
    ELSE <<"{">> \o JoinTexts([i \in 1..Len(v.pairs) |->
                                  Rendering(Str(v.pairs[i].key), sp) \o <<":", " ">>
                                      \o Rendering(v.pairs[i].val, sp)],
                              <<",", " ">>) \o <<"}">>

IsKey(m, k) == \E i \in 1..Len(m.pairs) : m.pairs[i].key = k
ValueAt(m, k) == m.pairs[CHOOSE i \in 1..Len(m.pairs) : m.pairs[i].key = k].val

C29_MappedValueRendered ==
    \A t \in MapTable :
        (formatStr = t.template /\ pc = "done" /\ Len(t.chain) = 1
             /\ IsKey(args[1], t.chain[1]))
            => ostr = RenderAlone(MapField(<<>>, t.sp), <<ValueAt(args[1], t.chain[1])>>,
                                  strict, env, platform).out


-----------------------------------------------------------------------------
(* Properties of the binding pass, checked under Spec *)

\* C25: while the arguments are bound in order, a step changes only the
\* field fragments of the argument it binds, each of them for the first and
\* only time; the handled flag never goes from true to false; literal-text
\* and environment fragments are never changed.  After the pass a field's
\* text has been written exactly when its index is below the argument count.
C25_BindingWritesOnce ==
    /\ [][pc = "binding"
            => /\ Len(fragments') = Len(fragments)
               /\ \A k \in 1..Len(fragments) :
                      /\ fragments[k].handled => fragments'[k].handled
                      /\ fragments[k].index < 0 => fragments'[k] = fragments[k]
                      /\ fragments'[k] # fragments[k]
                             => /\ fragments[k].index = argIndex
                                /\ ~fragments[k].handled
                                /\ fragments[k].text = <<>>]_vars
    /\ [](pc \in {"output", "done"}
            => \A k \in 1..Len(fragments) :
                   fragments[k].index >= 0
                       => IF fragments[k].index < Len(args)
                          THEN /\ fragments[k].handled
                               /\ fragments[k].text = TextOf(args[fragments[k].index + 1])
                          ELSE /\ ~fragments[k].handled
                               /\ fragments[k].text = <<>>)

C25_Witness ==
    /\ pc = "output"
    /\ formatStr = <<"{", "1", "}", " ", "{", "$", "E", "}">>
    /\ args = <<Str(Left), IntValue(3)>>
    /\ Len(fragments) = 3
    /\ fragments[1].text = <<"3">>
    /\ fragments[1].handled
    /\ fragments[2].text = <<" ">>
    /\ fragments[3].text = <<"v">>


-----------------------------------------------------------------------------
(* A call on a thread that keeps running: templates that take every        *)
(* scanner through its loop, and widths up to a hundred million             *)

LiveTemplates ==
    ParseTemplates
    \cup {<<"a", "{", "{", "}", "}", "{", " ", "0", " ", "}">>,
          <<"{", "0", ".", "i", "n", "c", "[", "x", "]", FORMAT_EXPLICIT_TYPE, "s", ":", ">", "5", "}">>,
          <<"{", "$", "E", "}", "{", "}", "b">>,
          <<"{", "0", ":", "{", "{", "}">>,
          <<"{", "0", ":", "1", "0", "0", "0", "0", "0", "0", "0", "0", "}">>}

InitLive == InitWith(LiveTemplates, ParseArgs, BOOLEAN, {DefaultPlatform})
SpecLive == InitLive /\ [][Next]_vars

\* C26: every call terminates, returning a string or failing with an error:
\* each turn of the field loop moves the scan position forward or raises, each
\* binding step moves on to the next argument, and a call that does not return
\* its string ends with a ParseError or with the unbound-field error.
C26_Terminates ==
    /\ [][(pc = "parsing" /\ pc' # "failed") => pos' > pos]_vars
    /\ [][(pc = "binding" /\ pc' = "binding") => argIndex' > argIndex]_vars
    /\ [](pos <= Len(Memory(formatStr, platform)) /\ argIndex <= Len(args))
    /\ [](pc = "failed" => error.kind \in {"parse", "range"})

-----------------------------------------------------------------------------
(* Inputs: one floating-point field without a precision, rendered with the  *)
(* adaptive precision                                                       *)

\* 1.0 / 3, 1.0 / 30 and 2.0 / 3, cut to the digits a value keeps
Third == Dec(FALSE, 0, Repeat(3, DecDigits), FALSE)
Thirtieth == Dec(FALSE, 0, <<0>> \o Repeat(3, DecDigits - 1), FALSE)
TwoThirds == Dec(TRUE, 0, Repeat(6, DecDigits), FALSE)

DynamicTypes == {<<>>, <<"g">>, <<"n">>, <<"e">>, <<"f">>, <<"5">>}
DynamicTemplates == {ConvField(<<>>, ty) : ty \in DynamicTypes}
DynamicValues ==
    {Third, Thirtieth, TwoThirds, Euler, SqrtOfInt(2), SqrtOfInt(4),
     Dec(FALSE, 0, <<5>> \o Repeat(0, DecDigits - 1), TRUE),
     Dec(FALSE, 1, <<2, 5>> \o Repeat(0, DecDigits - 2), TRUE),
     Dec(FALSE, 0, <<0, 0, 3>> \o Repeat(0, DecDigits - 3), TRUE),
     Dec(FALSE, 1234567, ZeroFrac, TRUE), DecOfInt(0)}
DynamicArgs == {<<v>> : v \in DynamicValues}

InitDynamic == InitWith(DynamicTemplates, DynamicArgs, {TRUE}, {DefaultPlatform})
SpecDynamic == InitDynamic /\ [][Next]_vars

-----------------------------------------------------------------------------
(* Claims about SpecDynamic *)

\* the adaptive rendering a field with specifier text fs gives value d: whether
\* it is used, its maximum precision and the turns of its digit loop
Adaptive(fs, d) ==
    With(ConvertToBasicFormatSpecifiers(fs), LAMBDA sp :
    With(PreprocessStreamForDecimal(sp, d), LAMBDA pre :
        [used |-> pre.useDynamic /\ sp.precision = PRECISION_NOT_SET,
         maxPrecision |-> pre.maxPrecision,
         iterations |-> FormatDynamicDecimal(pre.value, pre.minPrecision, pre.maxPrecision,
                                             pre.scientificCeil).iterations]))

\* C27: in adaptive-precision rendering the digit loop takes at most
\* max-precision turns for every value, also for one whose decimal expansion
\* does not end (1/3): it stops when the remainder is below the epsilon or the
\* digit count has reached the maximum precision.
C27_DigitLoopBounded ==
    pc = "done" =>
        \A ty \in DynamicTypes :
            formatStr = ConvField(<<>>, ty) /\ Adaptive(ty, args[1]).used
                => Adaptive(ty, args[1]).iterations <= Adaptive(ty, args[1]).maxPrecision

-----------------------------------------------------------------------------
(* Claims about SpecConv: the scan position *)

\* C28: while a template is parsed the scan position never passes the
\* template's terminator (pos <= length after every parsing step), and every
\* ParseError raised by parsing reports a position in [0, length].
C28_PositionWithinTemplate ==
    /\ [](pos <= Len(formatStr))
    /\ [][(pc \in {"start", "parsing"} /\ pc' = "failed" /\ error'.kind = "parse")
              => error'.pos \in 0..Len(formatStr)]_vars

-----------------------------------------------------------------------------
(* Inputs: one field of argument 0, with or without a specifier, followed   *)
(* by literal text that begins with closing brackets                        *)

EscapeSpecs == {<<>>, <<":">>, <<":", "5">>, <<":", ">", "3">>, <<":", "*", "<", "4">>}
EscapeTails ==
    {<<>>, <<"}", "}">>, <<"}", "}", "x">>, <<"x">>, <<"}">>, <<"}", "}", "}">>,
     <<"}", "}", "}", "}">>, <<"{", "{">>, <<"x", "}", "}">>}
EscapeField(s) == Field(<<"0">> \o s)
EscapeTemplates == {EscapeField(s) \o t : s \in EscapeSpecs, t \in EscapeTails}
EscapeArgs == {<<IntValue(7)>>, <<Str(<<"a", "b">>)>>}

InitEscape == InitWith(EscapeTemplates, EscapeArgs, {TRUE}, {DefaultPlatform})
SpecEscape == InitEscape /\ [][Next]_vars

-----------------------------------------------------------------------------
(* Claims about SpecEscape *)

\* C30 as stated: the text after the first closing bracket of a field is
\* scanned the same way with and without a specifier, so the field followed by
\* literal text t renders as the field alone followed by what t renders as on
\* its own ("{0:5}}}" as {0:5} and '}', like "{0}}}"), and raises when t on its
\* own raises.
C30_TailScannedAlike ==
    pc \in {"done", "failed"} =>
        \A s \in EscapeSpecs, t \in EscapeTails :
            formatStr = EscapeField(s) \o t
                => With(RenderAlone(t, <<>>, strict, env, platform), LAMBDA tail :
                       IF tail.err = NoError
                       THEN /\ pc = "done"
                            /\ ostr = RenderAlone(EscapeField(s), args, strict, env,
                                                  platform).out \o tail.out
                       ELSE pc = "failed")

\* the text behind a field's ':' paired left to right: spec is the specifier,
\* each doubled bracket written once, rest is the text behind the first closing
\* bracket that has no partner; ok says that there is such a bracket
RECURSIVE SpecifierSplit(_)
SpecifierSplit(t) ==
    IF t = <<>> THEN [ok |-> FALSE, spec |-> <<>>, rest |-> <<>>]
    ELSE IF Len(t) >= 2 /\ Head(t) \in {FORMAT_START, FORMAT_END} /\ t[2] = Head(t)
    THEN LET r == SpecifierSplit(SubSeq(t, 3, Len(t))) IN [r EXCEPT !.spec = <<Head(t)>> \o @]
    ELSE IF Head(t) = FORMAT_END THEN [ok |-> TRUE, spec |-> <<>>, rest |-> Tail(t)]
    ELSE IF Head(t) = FORMAT_START THEN [ok |-> FALSE, spec |-> <<>>, rest |-> <<>>]
    ELSE LET r == SpecifierSplit(Tail(t)) IN [r EXCEPT !.spec = <<Head(t)>> \o @]

\* where the field {0 s} followed by t ends: without a specifier at its first
\* closing bracket
FieldSplit(s, t) ==
    IF s = <<>> THEN [ok |-> TRUE, spec |-> <<>>, rest |-> t]
    ELSE SpecifierSplit(Tail(s) \o <<FORMAT_END>> \o t)

\* C30, amended: inside specifier text a doubled closing bracket is an escape,
\* written once into the specifier; the field ends at the first closing bracket
\* without a partner, and the text behind that bracket renders as it does on
\* its own, with or without a specifier.  "{0:5}}}" is the field of specifier "5}"
\* with nothing behind it; "{0}}}" is {0} followed by '}'.
C30_SpecifierTakesEscapes ==
    pc \in {"done", "failed"} =>
        \A s \in EscapeSpecs, t \in EscapeTails :
            formatStr = EscapeField(s) \o t
                => With(FieldSplit(s, t), LAMBDA split :
                   With(ConvertAndFormatType(args[1], NUL, split.spec, <<>>, platform),
                        LAMBDA field :
                   With(RenderAlone(split.rest, <<>>, strict, env, platform), LAMBDA tail :
                       IF split.ok /\ field.err = NoError /\ tail.err = NoError
                       THEN pc = "done" /\ ostr = field.out \o tail.out
                       ELSE pc = "failed" /\ error.kind = "parse")))

\* "{0:5}}}" of 7 has returned "    7", without a bracket
C30_Witness ==
    /\ pc = "done"
    /\ formatStr = EscapeField(<<":", "5">>) \o <<"}", "}">>
    /\ args = <<IntValue(7)>>
    /\ ostr = <<" ", " ", " ", " ", "7">>

====
